---- MODULE Spec2Model ----
(***************************************************************************)
(* Model of the persistent external-process orchestrator (AiderService,    *)
(* packages/core/src/tools/aider-service.ts).                              *)
(*                                                                         *)
(* The service runs on one JavaScript thread: every event handler (an API  *)
(* call up to its first await, a stdout 'data' event, a timer callback, a  *)
(* 'close' event) is one atomic action, and the promise continuations it   *)
(* schedules run as microtasks before any further event is handled.        *)
(*                                                                         *)
(* Time is kept relative to the present: Now is fixed and a Tick moves     *)
(* every stored timestamp one step into the past (a timestamp older than   *)
(* the window stays at 0, where it already compares as "older than TTL").  *)
(***************************************************************************)
EXTENDS Integers, Sequences, FiniteSets, TLC

\* ------------------------------------------------------------------ bounds
MaxExec == 2      \* execute() calls made by the host
MaxGetMap == 2    \* getRepoMap() calls made by the host
MaxStart == 1     \* explicit start() calls made by the host
MaxStop == 1      \* stop() calls made by the host
MaxCalls == 3     \* calls of any of the four made by the host
MaxFairCalls == 2 \* the same, in the behaviours checked for liveness
MaxOut == 2       \* stdout chunks the subprocesses emit
MaxExit == 1      \* subprocesses that exit without being killed
MaxTicks == 2     \* width of the time window, in ticks

\* ------------------------------------------------------- program constants
REPO_MAP_CACHE_TTL == 60000
CommandTimeoutMs == 30000

TickMs == CommandTimeoutMs
Now == MaxTicks * TickMs

Instructions == {"edit"}
FileLists == {<< >>, <<"a.ts", "b.ts">>}

\* A stdout chunk is one of:
\*   banner  "Aider v..."       readiness signal, no completion marker
\*   prompt  "> "               readiness signal and completion marker
\*   tokens  "Tokens: ..."      completion marker
\*   applied "Applied edit to"  completion marker
ChunkKinds == {"banner", "prompt", "tokens", "applied"}

VARIABLES
  aiderProcess,     \* 0 (null) or the index in procs of the handle held
  commandQueue,     \* sequence of command ids
  currentCommand,   \* 0 (null) or a command id
  outputBuffer,     \* sequence of chunks
  repoMapCache,     \* << >> (null) or <<string>>
  lastRepoMapTime,
  timers,           \* deadlines of the armed command timeouts, oldest first
  microtasks,       \* promise continuations scheduled and not yet run
  cmds,             \* every AiderCommand object created so far
  procs,            \* every subprocess spawned so far
  starts,           \* every start() invocation
  execs,            \* every execute() invocation
  maps,             \* every getRepoMap() invocation
  stopCalls,        \* number of stop() calls made
  stopsWaiting,     \* stop() calls suspended in their 1000 ms wait
  stdinLog,         \* history: every line written to a subprocess stdin
  outcome,          \* history: per command, the resolve/reject calls made
  dequeued,         \* history: every commandQueue.shift()
  callBudget        \* the number of calls the host makes at most

\* The provider layer (providers/factory.ts, providers/anthropic.ts).  It
\* shares no state with the service above.
VARIABLES
  env,              \* process.env: each variable is << >> (unset) or <<value>>
  selects,          \* history: the detectProvider() calls seen, with their outcomes
  requests,         \* history: every fetch() made
  gen,              \* the generateContent / generateContentStream call in progress
  inflight,         \* response bytes that arrived and were not read yet
  sent,             \* history: the lines the backend wrote to the response body
  closed,           \* the backend ended the response body
  yielded           \* history: the fragments handed to the consumer

providerVars == <<env, selects, requests, gen, inflight, sent, closed, yielded>>

\* The tag parser (providers/anthropic-tool-parser.ts), called on its own.
VARIABLES
  parserText,       \* the text handed to the parser
  parserRun         \* the call made with it, and what it returned

parserVars == <<parserText, parserRun>>

vars == <<callBudget, aiderProcess, commandQueue, currentCommand, outputBuffer, repoMapCache,
          lastRepoMapTime, timers, microtasks, cmds, procs, starts, execs, maps,
          stopCalls, stopsWaiting, stdinLog, outcome, dequeued, providerVars, parserVars>>

\* The whole state as one value, so that a handler is a function on states.
St ==
  [aiderProcess |-> aiderProcess, commandQueue |-> commandQueue,
   currentCommand |-> currentCommand, outputBuffer |-> outputBuffer,
   repoMapCache |-> repoMapCache, lastRepoMapTime |-> lastRepoMapTime,
   timers |-> timers, microtasks |-> microtasks, cmds |-> cmds, procs |-> procs,
   starts |-> starts, execs |-> execs, maps |-> maps, stopCalls |-> stopCalls,
   stopsWaiting |-> stopsWaiting, stdinLog |-> stdinLog, outcome |-> outcome,
   dequeued |-> dequeued]

\* The next state is s.  (s is bound to the value of x, which is computed once.)
Becomes(x) ==
  \E s \in {x} :
  /\ callBudget' = callBudget
  /\ aiderProcess' = s.aiderProcess
  /\ commandQueue' = s.commandQueue
  /\ currentCommand' = s.currentCommand
  /\ outputBuffer' = s.outputBuffer
  /\ repoMapCache' = s.repoMapCache
  /\ lastRepoMapTime' = s.lastRepoMapTime
  /\ timers' = s.timers
  /\ microtasks' = s.microtasks
  /\ cmds' = s.cmds
  /\ procs' = s.procs
  /\ starts' = s.starts
  /\ execs' = s.execs
  /\ maps' = s.maps
  /\ stopCalls' = s.stopCalls
  /\ stopsWaiting' = s.stopsWaiting
  /\ stdinLog' = s.stdinLog
  /\ outcome' = s.outcome
  /\ dequeued' = s.dequeued
  /\ UNCHANGED <<providerVars, parserVars>>

Constructed ==
  /\ aiderProcess = 0
  /\ commandQueue = << >>
  /\ currentCommand = 0
  /\ outputBuffer = << >>
  /\ repoMapCache = << >>
  /\ lastRepoMapTime = 0
  /\ timers = << >>
  /\ microtasks = << >>
  /\ cmds = << >>
  /\ procs = << >>
  /\ starts = << >>
  /\ execs = << >>
  /\ maps = << >>
  /\ stopCalls = 0
  /\ stopsWaiting = 0
  /\ stdinLog = << >>
  /\ outcome = << >>
  /\ dequeued = << >>

\* No provider call is made, and none is in progress.
NoCall ==
  [pc |-> "none", entry |-> "none", buffer |-> << >>, currentToolCall |-> << >>,
   lines |-> << >>, lineNo |-> 0, resume |-> "none", error |-> << >>, result |-> << >>]

ProviderUnused ==
  /\ env = [ANTHROPIC_AUTH_TOKEN |-> << >>, ANTHROPIC_BASE_URL |-> << >>,
            ANTHROPIC_MODEL |-> << >>]
  /\ selects = {}
  /\ requests = << >>
  /\ gen = NoCall
  /\ inflight = << >>
  /\ sent = << >>
  /\ closed = FALSE
  /\ yielded = << >>

\* No parser call is made.
NoRun == [pc |-> "none", result |-> << >>, parts |-> << >>]

ParserUnused == parserText = << >> /\ parserRun = NoRun

Init == Constructed /\ callBudget = MaxCalls /\ ProviderUnused /\ ParserUnused

FairInit == Constructed /\ callBudget = MaxFairCalls /\ ProviderUnused /\ ParserUnused

\* ----------------------------------------------------------- pure helpers

\* outputBuffer.includes('> ') || includes('Tokens:') || includes('Applied edit to')
HasMarker(buf) == \E i \in 1..Len(buf) : buf[i].kind \in {"prompt", "tokens", "applied"}

\* outputBuffer.includes('>') || includes('Aider v')
IsReady(buf) == \E i \in 1..Len(buf) : buf[i].kind \in {"prompt", "banner"}

\* Prompt echoes and token-usage lines are removed, the rest is kept in order.
IsKept(chunk) == chunk.kind \notin {"prompt", "tokens"}

cleanOutput(buf) == SelectSeq(buf, IsKept)

\* JavaScript truthiness of the cache field: neither null nor ''.
Truthy(cache) == cache # << >> /\ cache[1] # << >>

\* this.repoMapCache || ''
CacheOrEmpty(cache) == IF Truthy(cache) THEN cache[1] ELSE << >>

\* stdin?.write(text) on the handle held, skipped when the handle is null
Write(s, c, kind, text) ==
  IF s.aiderProcess = 0 THEN s
  ELSE [s EXCEPT !.stdinLog = Append(@, [proc |-> s.aiderProcess, cmd |-> c,
                                         kind |-> kind, text |-> text])]

RECURSIVE AddFiles(_, _, _)
AddFiles(s, c, files) ==
  IF files = << >> THEN s
  ELSE AddFiles(Write(s, c, "add", Head(files)), c, Tail(files))

ShiftTime(t) == IF t > TickMs THEN t - TickMs ELSE 0

\* --------------------------------------------------- the service's handlers

\* AiderCommand.resolve / AiderCommand.reject.  For a command of execute() these
\* are the functions of the caller's promise.  For the '/map' command resolve
\* stores the cache and both resume the owner of updateRepoMap().
resolve(s, c, result, by) ==
  LET s1 == [s EXCEPT !.outcome[c] = Append(@, [how |-> "resolve", by |-> by, result |-> result])]
  IN IF s.cmds[c].kind = "map"
     THEN [s1 EXCEPT !.repoMapCache = <<result>>,
                     !.lastRepoMapTime = Now,
                     !.microtasks = Append(@, s.cmds[c].owner)]
     ELSE s1

\* Variant: the rejection of the '/map' command empties the cache.
reject_invalidate(s, c, by) ==
  LET s1 == [s EXCEPT !.outcome[c] = Append(@, [how |-> "reject", by |-> by, result |-> << >>])]
  IN IF s.cmds[c].kind = "map"
     THEN [s1 EXCEPT !.repoMapCache = << >>,
                     !.lastRepoMapTime = 0,
                     !.microtasks = Append(@, s.cmds[c].owner)]
     ELSE s1

reject(s, c, by) ==
  LET s1 == [s EXCEPT !.outcome[c] = Append(@, [how |-> "reject", by |-> by, result |-> << >>])]
  IN IF s.cmds[c].kind = "map"
     THEN [s1 EXCEPT !.microtasks = Append(@, s.cmds[c].owner)]
     ELSE s1

\* Variant: no timeout is armed.
dispatch_noTimer(s) ==
  LET c == Head(s.commandQueue)
      s1 == [s EXCEPT !.currentCommand = c,
                      !.commandQueue = Tail(@),
                      !.outputBuffer = << >>,
                      !.dequeued = Append(@, [cmd |-> c, by |-> "dispatch"])]
      s2 == AddFiles(s1, c, s.cmds[c].files)
  IN Write(s2, c, "instruction", s.cmds[c].instruction)

\* processNextCommand past its guard: shift the queue, write the command to the
\* subprocess, arm the timeout.
dispatch(s) ==
  LET c == Head(s.commandQueue)
      s1 == [s EXCEPT !.currentCommand = c,
                      !.commandQueue = Tail(@),
                      !.outputBuffer = << >>,
                      !.dequeued = Append(@, [cmd |-> c, by |-> "dispatch"])]
      s2 == AddFiles(s1, c, s.cmds[c].files)
      s3 == Write(s2, c, "instruction", s.cmds[c].instruction)
  IN [s3 EXCEPT !.timers = Append(@, Now + CommandTimeoutMs)]

\* Variant: the check for a command in flight is missing.
processNextCommand_unguarded(s) ==
  IF s.commandQueue = << >> THEN s ELSE dispatch(s)

processNextCommand(s) ==
  IF s.currentCommand # 0 \/ s.commandQueue = << >> THEN s ELSE dispatch(s)

\* Variant: the settled command is left in the currentCommand slot.
completeCurrentCommand_noClear(s, by) ==
  IF s.currentCommand = 0 THEN s
  ELSE resolve(s, s.currentCommand, cleanOutput(s.outputBuffer), by)

completeCurrentCommand(s, by) ==
  IF s.currentCommand = 0 THEN s
  ELSE LET s1 == resolve(s, s.currentCommand, cleanOutput(s.outputBuffer), by)
           s2 == [s1 EXCEPT !.currentCommand = 0, !.outputBuffer = << >>]
       IN processNextCommand(s2)

handleOutput(s, data) ==
  LET s1 == [s EXCEPT !.outputBuffer = Append(@, data)]
  IN IF HasMarker(s1.outputBuffer) THEN completeCurrentCommand(s1, "output") ELSE s1

\* this.currentCommand?.id, undefined (0) when there is no current command
CurrentId(s) == IF s.currentCommand = 0 THEN 0 ELSE s.cmds[s.currentCommand].id

\* The callback of the timer armed by processNextCommand.  It closes over `this`
\* only and compares the current command's id with itself.
timeoutCallback(s) ==
  IF CurrentId(s) = CurrentId(s) THEN completeCurrentCommand(s, "timeout") ELSE s

RECURSIVE rejectQueue(_)
rejectQueue(s) ==
  IF s.commandQueue = << >> THEN s
  ELSE LET c == Head(s.commandQueue)
           s1 == [s EXCEPT !.commandQueue = Tail(@),
                           !.dequeued = Append(@, [cmd |-> c, by |-> "reject"])]
       IN rejectQueue(reject(s1, c, "exit"))

\* Variant: only the command in flight is rejected, the queue is left as it is.
rejectAllPending_currentOnly(s) ==
  IF s.currentCommand # 0
  THEN [reject(s, s.currentCommand, "exit") EXCEPT !.currentCommand = 0]
  ELSE s

rejectAllPending(s) ==
  LET s1 == IF s.currentCommand # 0
            THEN [reject(s, s.currentCommand, "exit") EXCEPT !.currentCommand = 0]
            ELSE s
  IN rejectQueue(s1)

\* The 'close' handler registered by start().
onClose(s) == rejectAllPending([s EXCEPT !.aiderProcess = 0])

\* new AiderCommand: the id of an execute() command is a fresh random string
\* (modelled by the object's index), that of every '/map' command is 'repo-map' (0).
NewCommand(s, kind, instruction, files, owner) ==
  [s EXCEPT !.cmds = Append(@, [kind |-> kind,
                                id |-> IF kind = "map" THEN 0 ELSE Len(s.cmds) + 1,
                                instruction |-> instruction,
                                files |-> files, owner |-> owner]),
            !.outcome = Append(@, << >>)]

\* Variant: the '/map' command is put behind the commands that wait.
updateRepoMap_append(s, owner) ==
  IF s.aiderProcess = 0 THEN [s EXCEPT !.microtasks = Append(@, owner)]
  ELSE LET s1 == NewCommand(s, "map", "/map", << >>, owner)
           c == Len(s1.cmds)
       IN processNextCommand([s1 EXCEPT !.commandQueue = Append(@, c)])

\* updateRepoMap() up to its await; owner is the invocation that awaits it.
updateRepoMap(s, owner) ==
  IF s.aiderProcess = 0 THEN [s EXCEPT !.microtasks = Append(@, owner)]
  ELSE LET s1 == NewCommand(s, "map", "/map", << >>, owner)
           c == Len(s1.cmds)
       IN processNextCommand([s1 EXCEPT !.commandQueue = <<c>> \o @])

\* Variant: a subprocess is spawned whether or not one is held.
start_respawn(s, e) ==
  LET p == Len(s.procs) + 1
  IN [s EXCEPT !.procs = Append(@, [state |-> "running", out |-> 0, served |-> 0]),
               !.aiderProcess = p,
               !.starts = Append(@, [state |-> "waitReady", proc |-> p, exec |-> e])]

\* start() up to its first await (waitForReady); e is the execute() invocation
\* that awaits it, 0 for a call by the host.
start(s, e) ==
  IF s.aiderProcess # 0
  THEN [s EXCEPT !.starts = Append(@, [state |-> "done", proc |-> 0, exec |-> e])]
  ELSE LET p == Len(s.procs) + 1
       IN [s EXCEPT !.procs = Append(@, [state |-> "running", out |-> 0, served |-> 0]),
                    !.aiderProcess = p,
                    !.starts = Append(@, [state |-> "waitReady", proc |-> p, exec |-> e])]

\* The body of execute() after the optional await of start().
enqueue(s, e) ==
  LET s1 == NewCommand(s, "user", s.execs[e].instruction, s.execs[e].files,
                       [kind |-> "execute", idx |-> e])
      c == Len(s1.cmds)
  IN processNextCommand([s1 EXCEPT !.commandQueue = Append(@, c),
                                   !.execs[e].state = "enqueued",
                                   !.execs[e].cmd = c])

execute(s, instruction, files) ==
  LET e == Len(s.execs) + 1
      s1 == [s EXCEPT !.execs = Append(@, [state |-> "awaitStart", cmd |-> 0,
                                           instruction |-> instruction, files |-> files])]
  IN IF s.aiderProcess = 0 THEN start(s1, e) ELSE enqueue(s1, e)

\* Variant: the empty string is returned whatever the cache holds.
returnRepoMap_empty(s, g) ==
  [s EXCEPT !.maps[g].state = "returned", !.maps[g].ret = << >>]

\* getRepoMap() returning to its caller.
returnRepoMap(s, g) ==
  [s EXCEPT !.maps[g].state = "returned", !.maps[g].ret = CacheOrEmpty(s.repoMapCache)]

getRepoMap(s) ==
  LET g == Len(s.maps) + 1
      s1 == [s EXCEPT !.maps = Append(@, [state |-> "waiting", at |-> Now, cmd |-> 0,
                                          hit |-> FALSE, ret |-> << >>])]
  IN IF Truthy(s.repoMapCache) /\ (Now - s.lastRepoMapTime) < REPO_MAP_CACHE_TTL
     THEN [s1 EXCEPT !.maps[g].state = "returned", !.maps[g].hit = TRUE,
                     !.maps[g].ret = s.repoMapCache[1]]
     ELSE LET s2 == updateRepoMap(s1, [kind |-> "getRepoMap", idx |-> g])
          IN IF s.aiderProcess = 0 THEN s2
             ELSE [s2 EXCEPT !.maps[g].cmd = Len(s2.cmds)]

\* A promise continuation: start() returning after `await this.updateRepoMap()`
\* (which resumes the execute() that awaited it), or getRepoMap() returning.
runContinuation(s, k) ==
  IF k.kind = "start"
  THEN LET s1 == [s EXCEPT !.starts[k.idx].state = "done"]
           e == s.starts[k.idx].exec
       IN IF e = 0 THEN s1 ELSE enqueue(s1, e)
  ELSE returnRepoMap(s, k.idx)

\* waitForReady's poll seeing the readiness signal: start() goes on to
\* `await this.updateRepoMap()`.
checkReady(s, i) ==
  updateRepoMap([s EXCEPT !.starts[i].state = "waitMap"], [kind |-> "start", idx |-> i])

\* stop() up to its await, and after it.
stop(s) ==
  LET s1 == [s EXCEPT !.stopCalls = @ + 1]
  IN IF s.aiderProcess = 0 THEN s1
     ELSE [Write(s1, 0, "exit", "/exit") EXCEPT !.stopsWaiting = @ + 1]

stopResume(s) ==
  LET s1 == [s EXCEPT !.stopsWaiting = @ - 1]
  IN IF s.aiderProcess = 0 THEN s1
     ELSE [s1 EXCEPT !.procs[s.aiderProcess].state = "killed", !.aiderProcess = 0]

\* ------------------------------------------------------------ the subprocess

\* The instructions written to subprocess p, in order.
Inbox(s, p) == SelectSeq(s.stdinLog, LAMBDA w : w.proc = p /\ w.kind = "instruction")

\* The command subprocess p is working on: the oldest instruction it has read
\* and not yet answered with its prompt; 0 when it has none.
Serving(s, p) ==
  LET inbox == Inbox(s, p)
  IN IF s.procs[p].served < Len(inbox) THEN inbox[s.procs[p].served + 1].cmd ELSE 0

Emitted == LET RECURSIVE Sum(_)
               Sum(i) == IF i = 0 THEN 0 ELSE procs[i].out + Sum(i - 1)
           IN Sum(Len(procs))

emit(s, p, kind) ==
  LET c == Serving(s, p)
      s1 == [s EXCEPT !.procs[p].out = @ + 1,
                      !.procs[p].served = IF kind = "prompt" /\ c # 0 THEN @ + 1 ELSE @]
  IN handleOutput(s1, [for |-> c, kind |-> kind])

\* ------------------------------------------------------------------ actions

Idle == microtasks = << >>

HostStarts == Cardinality({i \in 1..Len(starts) : starts[i].exec = 0})

Calls == HostStarts + Len(execs) + Len(maps) + stopCalls

StartCall ==
  /\ Idle
  /\ Calls < callBudget
  /\ HostStarts < MaxStart
  /\ Becomes(start(St, 0))

ExecuteCall ==
  /\ Idle
  /\ Len(execs) < MaxExec
  /\ Calls < callBudget
  /\ \E instruction \in Instructions, files \in FileLists :
       Becomes(execute(St, instruction, files))

GetRepoMapCall ==
  /\ Idle
  /\ Len(maps) < MaxGetMap
  /\ Calls < callBudget
  /\ Becomes(getRepoMap(St))

StopCall ==
  /\ Idle
  /\ stopCalls < MaxStop
  /\ Calls < callBudget
  /\ Becomes(stop(St))

StopResume ==
  /\ Idle
  /\ stopsWaiting > 0
  /\ Becomes(stopResume(St))

CheckReady ==
  /\ Idle
  /\ \E i \in 1..Len(starts) :
       /\ starts[i].state = "waitReady"
       /\ IsReady(outputBuffer)
       /\ Becomes(checkReady(St, i))

ProcOutput ==
  /\ Idle
  /\ \E p \in 1..Len(procs), kind \in ChunkKinds :
       /\ procs[p].state = "running"
       /\ Emitted < MaxOut
       /\ Becomes(emit(St, p, kind))

ProcClose ==
  /\ Idle
  /\ \E p \in 1..Len(procs) :
       /\ \/ procs[p].state = "killed"
          \/ /\ procs[p].state = "running"
             /\ Cardinality({q \in 1..Len(procs) : procs[q].state = "exited"}) < MaxExit
       /\ Becomes(onClose([St EXCEPT !.procs[p].state =
                                       IF @ = "killed" THEN "closed" ELSE "exited"]))

TimerFire ==
  /\ Idle
  /\ timers # << >>
  /\ Head(timers) <= Now
  /\ Becomes(timeoutCallback([St EXCEPT !.timers = Tail(@)]))

RunMicrotask ==
  /\ microtasks # << >>
  /\ Becomes(runContinuation([St EXCEPT !.microtasks = Tail(@)], Head(microtasks)))

\* TickMs pass.  Every timer that is due fires first, and the 1000 ms wait of
\* stop() is over before a tick is.
Tick ==
  /\ Idle
  /\ stopsWaiting = 0
  /\ \A i \in 1..Len(timers) : timers[i] > Now
  /\ timers' = [i \in 1..Len(timers) |-> timers[i] - TickMs]
  /\ lastRepoMapTime' = ShiftTime(lastRepoMapTime)
  /\ maps' = [g \in 1..Len(maps) |-> [maps[g] EXCEPT !.at = ShiftTime(@)]]
  /\ UNCHANGED <<callBudget, aiderProcess, commandQueue, currentCommand, outputBuffer, repoMapCache,
                 microtasks, cmds, procs, starts, execs, stopCalls, stopsWaiting,
                 stdinLog, outcome, dequeued, providerVars, parserVars>>

Next ==
  \/ StartCall
  \/ ExecuteCall
  \/ GetRepoMapCall
  \/ StopCall
  \/ StopResume
  \/ CheckReady
  \/ ProcOutput
  \/ ProcClose
  \/ TimerFire
  \/ RunMicrotask
  \/ Tick

Spec == Init /\ [][Next]_vars

TypeOK ==
  /\ aiderProcess \in 0..Len(procs)
  /\ currentCommand \in 0..Len(cmds)
  /\ \A i \in 1..Len(commandQueue) : commandQueue[i] \in 1..Len(cmds)
  /\ Len(outcome) = Len(cmds)
  /\ lastRepoMapTime \in 0..Now
  /\ stopsWaiting \in 0..stopCalls

\* ------------------------------------------------------------- fair behaviour

\* What the event loop guarantees: a due timer fires, time passes, a scheduled
\* continuation runs, waitForReady's poll runs, the wait of stop() ends, and a
\* killed subprocess is reaped.  Nothing obliges the subprocess to print or
\* to exit, nor the host to call.
KilledClose ==
  /\ Idle
  /\ \E p \in 1..Len(procs) :
       /\ procs[p].state = "killed"
       /\ Becomes(onClose([St EXCEPT !.procs[p].state = "closed"]))

FairSpec ==
  /\ FairInit
  /\ [][Next]_vars
  /\ WF_vars(TimerFire)
  /\ WF_vars(Tick)
  /\ WF_vars(RunMicrotask)
  /\ WF_vars(CheckReady)
  /\ WF_vars(StopResume)
  /\ WF_vars(KilledClose)

\* ============================================================ provider layer
\* A string is the sequence of its pieces ('' is << >>); an optional value is
\* << >> (undefined) or <<value>>.

MaxSelect == 2    \* distinct detectProvider() calls (with their outcomes) recorded

serviceVars == <<callBudget, aiderProcess, commandQueue, currentCommand, outputBuffer,
                 repoMapCache, lastRepoMapTime, timers, microtasks, cmds, procs, starts,
                 execs, maps, stopCalls, stopsWaiting, stdinLog, outcome, dequeued>>

\* The provider layer's state as one value.
Pv ==
  [env |-> env, selects |-> selects, requests |-> requests, gen |-> gen, inflight |-> inflight, sent |-> sent, closed |-> closed,
   yielded |-> yielded]

PvBecomes(x) ==
  \E s \in {x} :
  /\ env' = s.env
  /\ selects' = s.selects
  /\ requests' = s.requests
  /\ gen' = s.gen
  /\ inflight' = s.inflight
  /\ sent' = s.sent
  /\ closed' = s.closed
  /\ yielded' = s.yielded
  /\ UNCHANGED <<serviceVars, parserVars>>

\* a || b on optional strings
Or(a, b) == IF Truthy(a) THEN a ELSE b

toLowerCase(str) == [i \in 1..Len(str) |-> IF str[i] = "Claude" THEN "claude" ELSE str[i]]

includes(str, piece) == \E i \in 1..Len(str) : str[i] = piece

\* ------------------------------------------------------------ factory.ts

\* new AnthropicProvider(authToken?, baseUrl?, model?)
AnthropicProvider(e, authToken, baseUrl, model) ==
  LET token == Or(Or(authToken, e.ANTHROPIC_AUTH_TOKEN), << << >> >>)
  IN IF ~Truthy(token)
     THEN [threw |-> TRUE, names |-> {"ANTHROPIC_AUTH_TOKEN"}, authToken |-> << >>,
           baseUrl |-> << >>, model |-> << >>]
     ELSE [threw |-> FALSE, names |-> {},
           authToken |-> token[1],
           baseUrl |-> Or(Or(baseUrl, e.ANTHROPIC_BASE_URL), <<<<"https://api.anthropic.com">>>>)[1],
           model |-> Or(Or(model, e.ANTHROPIC_MODEL), <<<<"claude-3-opus-20240229">>>>)[1]]

\* What a detectProvider() call hands to its caller.
Nil == [kind |-> "nil", names |-> {}, provider |-> << >>]

ConfigurationError(names) == [kind |-> "error", names |-> names, provider |-> << >>]

Adapter(provider) == [kind |-> "adapter", names |-> {}, provider |-> <<provider>>]

\* new ModelProviderAdapter(new AnthropicProvider())
createCustomAnthropicProvider(e) ==
  LET provider == AnthropicProvider(e, << >>, << >>, << >>)
  IN IF provider.threw THEN ConfigurationError(provider.names) ELSE Adapter(provider)

\* The call returns (or throws) result, having called the console methods of
\* logged.
Selected(s, modelName, result, logged) ==
  [s EXCEPT !.selects = @ \cup {[modelName |-> modelName, env |-> s.env,
                                  result |-> result, logged |-> logged]}]

\* Variant: a request that cannot be served falls back to the native path.
detectProvider_silentFallback(s, modelName) ==
  IF ~Truthy(modelName) THEN Selected(s, modelName, Nil, << >>)
  ELSE LET modelLower == toLowerCase(modelName[1])
       IN IF includes(modelLower, "claude") \/ includes(modelLower, "anthropic")
          THEN IF ~Truthy(s.env.ANTHROPIC_AUTH_TOKEN) \/ ~Truthy(s.env.ANTHROPIC_BASE_URL)
               THEN Selected(s, modelName, Nil, << >>)
               ELSE Selected(s, modelName, createCustomAnthropicProvider(s.env),
                             <<"log", "log">>)
          ELSE IF \/ includes(modelLower, "gemini") \/ includes(modelLower, "bison")
                  \/ includes(modelLower, "gecko")
               THEN Selected(s, modelName, Nil, << >>)
               ELSE Selected(s, modelName, Nil, <<"debug">>)

\* Variant: the native patterns are tested before the alternate family's.
detectProvider_nativeFirst(s, modelName) ==
  IF ~Truthy(modelName) THEN Selected(s, modelName, Nil, << >>)
  ELSE LET modelLower == toLowerCase(modelName[1])
       IN IF \/ includes(modelLower, "gemini") \/ includes(modelLower, "bison")
             \/ includes(modelLower, "gecko")
          THEN Selected(s, modelName, Nil, << >>)
          ELSE IF includes(modelLower, "claude") \/ includes(modelLower, "anthropic")
               THEN IF \/ ~Truthy(s.env.ANTHROPIC_AUTH_TOKEN)
                       \/ ~Truthy(s.env.ANTHROPIC_BASE_URL)
                    THEN Selected(s, modelName,
                                  ConfigurationError({"ANTHROPIC_AUTH_TOKEN",
                                                      "ANTHROPIC_BASE_URL",
                                                      "ANTHROPIC_MODEL"}), << >>)
                    ELSE Selected(s, modelName, createCustomAnthropicProvider(s.env),
                                  <<"log", "log">>)
               ELSE Selected(s, modelName, Nil, <<"debug">>)

\* Variant: an identifier that raised the configuration error before is sent
\* to the native path from then on.
detectProvider_remembers(s, modelName) ==
  IF ~Truthy(modelName) THEN Selected(s, modelName, Nil, << >>)
  ELSE LET modelLower == toLowerCase(modelName[1])
       IN IF includes(modelLower, "claude") \/ includes(modelLower, "anthropic")
          THEN IF \E c \in s.selects : c.modelName = modelName /\ c.result.kind = "error"
               THEN Selected(s, modelName, Nil, << >>)
               ELSE IF \/ ~Truthy(s.env.ANTHROPIC_AUTH_TOKEN)
                       \/ ~Truthy(s.env.ANTHROPIC_BASE_URL)
                    THEN Selected(s, modelName,
                                  ConfigurationError({"ANTHROPIC_AUTH_TOKEN",
                                                      "ANTHROPIC_BASE_URL",
                                                      "ANTHROPIC_MODEL"}), << >>)
                    ELSE Selected(s, modelName, createCustomAnthropicProvider(s.env),
                                  <<"log", "log">>)
          ELSE IF \/ includes(modelLower, "gemini") \/ includes(modelLower, "bison")
                  \/ includes(modelLower, "gecko")
               THEN Selected(s, modelName, Nil, << >>)
               ELSE Selected(s, modelName, Nil, <<"debug">>)

detectProvider(s, modelName) ==
  IF ~Truthy(modelName) THEN Selected(s, modelName, Nil, << >>)
  ELSE LET modelLower == toLowerCase(modelName[1])
       IN IF includes(modelLower, "claude") \/ includes(modelLower, "anthropic")
          THEN IF ~Truthy(s.env.ANTHROPIC_AUTH_TOKEN) \/ ~Truthy(s.env.ANTHROPIC_BASE_URL)
               THEN Selected(s, modelName,
                             ConfigurationError({"ANTHROPIC_AUTH_TOKEN", "ANTHROPIC_BASE_URL",
                                                 "ANTHROPIC_MODEL"}), << >>)
               ELSE Selected(s, modelName, createCustomAnthropicProvider(s.env),
                             <<"log", "log">>)
          ELSE IF \/ includes(modelLower, "gemini") \/ includes(modelLower, "bison")
                  \/ includes(modelLower, "gecko")
               THEN Selected(s, modelName, Nil, << >>)
               ELSE Selected(s, modelName, Nil, <<"debug">>)

\* The identifiers the host asks for: none, '', and names of each family.
ModelNames ==
  {<< >>, <<"claude", "-x">>, <<"Claude", "-x">>, <<"anthropic", "-x">>,
   <<"gemini", "-x">>, <<"text-", "bison">>, <<"gecko">>, <<"gpt", "-x">>,
   <<"gemini", "claude">>}

ModelArgs == {<< >>} \cup {<<n>> : n \in ModelNames}

\* The environments: the token unset, '' or set; the base URL unset or set.
Envs ==
  [ANTHROPIC_AUTH_TOKEN : {<< >>, << << >> >>, << <<"tok">> >>},
   ANTHROPIC_BASE_URL : {<< >>, << <<"url">> >>},
   ANTHROPIC_MODEL : {<< >>}]

SetEnv ==
  /\ \E e \in Envs : e # env /\ env' = e
  /\ UNCHANGED <<serviceVars, selects, requests, gen, inflight, sent, closed, yielded, parserVars>>

Select ==
  /\ Cardinality(selects) < MaxSelect
  /\ \E modelName \in ModelArgs : PvBecomes(detectProvider(Pv, modelName))

RouterInit == Constructed /\ callBudget = 0 /\ ProviderUnused /\ ParserUnused

RouterNext ==
  \/ SetEnv
  \/ Select

RouterSpec == RouterInit /\ [][RouterNext]_vars

\* ---------------------------------------------------------- anthropic.ts
MaxLines == 4     \* lines the backend writes to one response body
MaxUnread == 1    \* a line is written when at most this many pieces are unread

\* The response body is a sequence of pieces.  A line is <<prefix, payload>>
\* ("data: " and what follows it) or <<comment>>, and ends with a newline.
Piece(a, ev) == [a |-> a, ev |-> ev]

\* A parsed payload.  Every field but type is optional.
Event(type, text, partial_json, block, name, usage) ==
  [type |-> type, text |-> text, partial_json |-> partial_json, block |-> block,
   name |-> name, usage |-> usage]

NoEvent == Event("none", << >>, << >>, << >>, << >>, << >>)

NL == Piece("\n", NoEvent)
DataPrefix == Piece("data: ", NoEvent)
DONE == Piece("[DONE]", NoEvent)
Garbage == Piece("{not json", NoEvent)
Comment == Piece(": keep-alive", NoEvent)

TextDelta(text) == Event("content_block_delta", <<text>>, << >>, << >>, << >>, << >>)
ArgumentDelta(json) == Event("content_block_delta", << >>, <<json>>, << >>, << >>, << >>)
ToolBlockStart(name) == Event("content_block_start", << >>, << >>, <<"tool_use">>, <<name>>, << >>)
BlockStop == Event("content_block_stop", << >>, << >>, << >>, << >>, << >>)
MessageStop(usage) == Event("message_stop", << >>, << >>, << >>, << >>, usage)
Ping == Event("ping", << >>, << >>, << >>, << >>, << >>)

\* Argument JSON is a sequence of tokens; "a1" stands for the member "a":1.
PartialJsons == {<<"{", "a1", "}">>, <<"{", "a1">>, <<"}">>}

\* A count of a usage object is optional.
Usages == {<< >>, <<[input_tokens |-> <<3>>, output_tokens |-> <<4>>]>>}

Events ==
  {TextDelta(<<"hi">>), TextDelta(<< >>), ToolBlockStart(<<"f">>), ToolBlockStart(<<"g">>),
   BlockStop, Ping}
  \cup {ArgumentDelta(j) : j \in PartialJsons}
  \cup {MessageStop(u) : u \in Usages}

\* What the backend may write as one line (without its newline).
Lines ==
  {<<DataPrefix, Piece("json", ev)>> : ev \in Events}
  \cup {<<DataPrefix, DONE>>, <<DataPrefix, Garbage>>, <<Comment>>}

\* buffer.split('\n')
RECURSIVE split(_)
split(buf) ==
  IF \A i \in 1..Len(buf) : buf[i] # NL THEN <<buf>>
  ELSE LET k == CHOOSE i \in 1..Len(buf) : buf[i] = NL /\ \A j \in 1..(i - 1) : buf[j] # NL
       IN <<SubSeq(buf, 1, k - 1)>> \o split(SubSeq(buf, k + 1, Len(buf)))

\* line.startsWith('data: ')
startsWithData(line) == line # << >> /\ Head(line) = DataPrefix

\* JSON.parse(data) of a payload: it throws unless data is one JSON text.
PayloadParses(data) == Len(data) = 1 /\ data[1].a = "json"

\* JSON.parse(input) of accumulated argument text.  An object is the set of
\* its <<key, value>> members.
MemberOf(token) == IF token = "a1" THEN <<"a", 1>> ELSE <<"b", 2>>

IsMember(token) == token \in {"a1", "b2"}

InputParses(input) ==
  /\ Len(input) >= 2
  /\ input[1] = "{" /\ input[Len(input)] = "}"
  /\ Len(input) = 2 \/ Len(input) % 2 = 1
  /\ \A i \in 2..(Len(input) - 1) :
       IF i % 2 = 0 THEN IsMember(input[i]) ELSE input[i] = ","

InputValue(input) == {MemberOf(input[i]) : i \in {j \in 2..(Len(input) - 1) : j % 2 = 0}}

\* The parts and fragments that generateContentStream yields.
TextPart(text) == [text |-> <<text>>, functionCall |-> << >>]

CallPart(name, args) == [text |-> << >>, functionCall |-> <<[name |-> name, args |-> args]>>]

Fragment(text, parts, finishReason, usageMetadata) ==
  [text |-> text, parts |-> parts, finishReason |-> finishReason,
   usageMetadata |-> usageMetadata]

\* A JavaScript number: NaN, or a count.
Number(n) == [nan |-> FALSE, n |-> n]

NaN == [nan |-> TRUE, n |-> 0]

\* Variant: the total is the prompt count.
Add_first(a, b) == IF a = << >> THEN NaN ELSE Number(a[1])

\* a + b on optional counts: undefined + n is NaN
Add(a, b) == IF a = << >> \/ b = << >> THEN NaN ELSE Number(a[1] + b[1])

\* usageMetadata of the message_stop fragment
UsageMetadata(usage) ==
  IF usage = << >> THEN << >>
  ELSE <<[promptTokenCount |-> usage[1].input_tokens,
          candidatesTokenCount |-> usage[1].output_tokens,
          totalTokenCount |-> Add(usage[1].input_tokens, usage[1].output_tokens)]>>

\* The fragment of a text delta.
textFragment(text) == Fragment(text, <<TextPart(text)>>, "undefined", << >>)

\* Variant: the accumulated text is decoded as far as it goes.
toolArguments_bestEffort(input) ==
  IF InputParses(input) THEN InputValue(input)
  ELSE {MemberOf(input[i]) : i \in {j \in 1..Len(input) : IsMember(input[j])}}

\* let args = {}; try { args = JSON.parse(currentToolCall.input) } catch {}
toolArguments(input) == IF InputParses(input) THEN InputValue(input) ELSE {}

\* Variant: a delta is put in front of the text accumulated so far.
accumulate_prepend(call, partial_json) == [call EXCEPT ![1].input = partial_json \o @]

\* currentToolCall.input += parsed.delta.partial_json
accumulate(call, partial_json) == [call EXCEPT ![1].input = @ \o partial_json]

\* Variant: the fragment of a completed call closes the turn.
callFragment_stop(call) ==
  Fragment(<< >>, <<CallPart(call[1].name, toolArguments(call[1].input))>>, "STOP", << >>)

\* The fragment of a completed tool call.
callFragment(call) ==
  Fragment(<< >>, <<CallPart(call[1].name, toolArguments(call[1].input))>>,
           "undefined", << >>)

\* The fragment of message_stop.
stopFragment(usage) == Fragment(<< >>, <<TextPart(<< >>)>>, "STOP", UsageMetadata(usage))

\* yield fragment: the generator is suspended until the consumer's next().
\* (line is the number of the line the fragment was made for.)
yield(s, fragment, resume) ==
  [s EXCEPT !.yielded = Append(@, [fragment |-> fragment, line |-> s.gen.lineNo]),
            !.gen.pc = "yield",
            !.gen.resume = resume]

\* Variant: an event of no recognized kind discards the call being accumulated.
RECURSIVE processLines_reset(_)
processLines_reset(s) ==
  IF s.gen.lines = << >> THEN [s EXCEPT !.gen.pc = "read", !.gen.resume = "none"]
  ELSE
    LET line == Head(s.gen.lines)
        s1 == [s EXCEPT !.gen.lines = Tail(@), !.gen.lineNo = @ + 1]
        data == Tail(line)
        parsed == data[1].ev
        call == s.gen.currentToolCall
    IN IF ~startsWithData(line) THEN processLines_reset(s1)
       ELSE IF data = <<DONE>> THEN processLines_reset(s1)
       ELSE IF ~PayloadParses(data) THEN processLines_reset(s1)
       ELSE IF parsed.type = "content_block_delta" /\ Truthy(parsed.text)
         THEN yield(s1, textFragment(parsed.text[1]), "text")
       ELSE IF parsed.type = "content_block_start" /\ parsed.block = <<"tool_use">>
         THEN processLines_reset([s1 EXCEPT !.gen.currentToolCall =
                                        <<[name |-> parsed.name[1], input |-> << >>]>>])
       ELSE IF parsed.type = "content_block_delta" /\ Truthy(parsed.partial_json)
         THEN processLines_reset(IF call # << >>
                           THEN [s1 EXCEPT !.gen.currentToolCall =
                                             accumulate(call, parsed.partial_json[1])]
                           ELSE s1)
       ELSE IF parsed.type = "content_block_stop" /\ call # << >>
         THEN yield(s1, callFragment(call), "tool")
       ELSE IF parsed.type = "message_stop"
         THEN yield(s1, stopFragment(parsed.usage), "stop")
       ELSE processLines_reset([s1 EXCEPT !.gen.currentToolCall = << >>])

\* Variant: a tool block that starts while a call is pending is ignored.
RECURSIVE processLines_keepFirst(_)
processLines_keepFirst(s) ==
  IF s.gen.lines = << >> THEN [s EXCEPT !.gen.pc = "read", !.gen.resume = "none"]
  ELSE
    LET line == Head(s.gen.lines)
        s1 == [s EXCEPT !.gen.lines = Tail(@), !.gen.lineNo = @ + 1]
        data == Tail(line)
        parsed == data[1].ev
        call == s.gen.currentToolCall
    IN IF ~startsWithData(line) THEN processLines_keepFirst(s1)
       ELSE IF data = <<DONE>> THEN processLines_keepFirst(s1)
       ELSE IF ~PayloadParses(data) THEN processLines_keepFirst(s1)
       ELSE IF parsed.type = "content_block_delta" /\ Truthy(parsed.text)
         THEN yield(s1, textFragment(parsed.text[1]), "text")
       ELSE IF parsed.type = "content_block_start" /\ parsed.block = <<"tool_use">>
         THEN processLines_keepFirst(IF call # << >> THEN s1
                                     ELSE [s1 EXCEPT !.gen.currentToolCall =
                                             <<[name |-> parsed.name[1], input |-> << >>]>>])
       ELSE IF parsed.type = "content_block_delta" /\ Truthy(parsed.partial_json)
         THEN processLines_keepFirst(IF call # << >>
                           THEN [s1 EXCEPT !.gen.currentToolCall =
                                             accumulate(call, parsed.partial_json[1])]
                           ELSE s1)
       ELSE IF parsed.type = "content_block_stop" /\ call # << >>
         THEN yield(s1, callFragment(call), "tool")
       ELSE IF parsed.type = "message_stop"
         THEN yield(s1, stopFragment(parsed.usage), "stop")
       ELSE processLines_keepFirst(s1)

\* The for loop over the complete lines, up to the next yield; with no line
\* left the generator awaits reader.read() again.
RECURSIVE processLines(_)
processLines(s) ==
  IF s.gen.lines = << >> THEN [s EXCEPT !.gen.pc = "read", !.gen.resume = "none"]
  ELSE
    LET line == Head(s.gen.lines)
        s1 == [s EXCEPT !.gen.lines = Tail(@), !.gen.lineNo = @ + 1]
        data == Tail(line)
        parsed == data[1].ev
        call == s.gen.currentToolCall
    IN IF ~startsWithData(line) THEN processLines(s1)
       ELSE IF data = <<DONE>> THEN processLines(s1)
       ELSE IF ~PayloadParses(data) THEN processLines(s1)
       ELSE IF parsed.type = "content_block_delta" /\ Truthy(parsed.text)
         THEN yield(s1, textFragment(parsed.text[1]), "text")
       ELSE IF parsed.type = "content_block_start" /\ parsed.block = <<"tool_use">>
         THEN processLines([s1 EXCEPT !.gen.currentToolCall =
                                        <<[name |-> parsed.name[1], input |-> << >>]>>])
       ELSE IF parsed.type = "content_block_delta" /\ Truthy(parsed.partial_json)
         THEN processLines(IF call # << >>
                           THEN [s1 EXCEPT !.gen.currentToolCall =
                                             accumulate(call, parsed.partial_json[1])]
                           ELSE s1)
       ELSE IF parsed.type = "content_block_stop" /\ call # << >>
         THEN yield(s1, callFragment(call), "tool")
       ELSE IF parsed.type = "message_stop"
         THEN yield(s1, stopFragment(parsed.usage), "stop")
       ELSE processLines(s1)

\* ------------------------------------------------- anthropic-tool-parser.ts
\* A text is a sequence of pieces.  A piece is a word, a blank, or a tag; the
\* opening tag <function_result> is also met as its two halves, "<function_"
\* followed by "result>", so that deleting what stands between two halves
\* joins them.

MaxText == 3      \* pieces of a text over the whole alphabet
MaxResultText == 5 \* pieces of a text of result tags, invoke tags and words
MaxCallText == 5  \* pieces of a text of invoke tags, shorthand tags, words and blanks
MaxWrapText == 5  \* pieces of a text of wrapper tags, and of one of parameter tags

InvokeF == "<invoke name=\"f\">"
InvokeG == "<invoke name=\"g\">"
InvokeEnd == "</invoke>"
Parameter == "<parameter name=\"p\">"
ParameterEnd == "</parameter>"
ResultTag == "<function_result>"
ResultHalf == "<function_"
ResultRest == "result>"
ResultEnd == "</function_result>"
CallsTag == "<function_calls>"
CallsEnd == "</function_calls>"
TagA == "<a>"
TagAEnd == "</a>"

Alphabet ==
  {"x", "y", " ", InvokeF, InvokeG, InvokeEnd, Parameter, ParameterEnd, ResultTag,
   ResultHalf, ResultRest, ResultEnd, CallsTag, CallsEnd, TagA, TagAEnd}

\* Every sequence of at most n pieces of S.
SeqsUpTo(S, n) == UNION {[1..k -> S] : k \in 0..n}

Texts ==
  SeqsUpTo(Alphabet, MaxText)
  \cup SeqsUpTo({ResultHalf, ResultRest, ResultTag, ResultEnd, InvokeF, InvokeEnd, "x"},
                MaxResultText)
  \cup SeqsUpTo({InvokeF, InvokeG, InvokeEnd, TagA, TagAEnd, "x", " "}, MaxCallText)
  \cup SeqsUpTo({CallsTag, CallsEnd, InvokeF, InvokeEnd, "x"}, MaxWrapText)
  \cup SeqsUpTo({InvokeF, InvokeEnd, Parameter, ParameterEnd, "x"}, MaxWrapText)

\* \s
IsSpace(piece) == piece \in {" ", "\n"}

\* [^<]: a piece without '<'
IsPlain(piece) == piece \in {"x", "y", " ", "\n", ResultRest}

\* The opening tag that begins at piece i of t: the class of patterns it can
\* open, the element it names, the name it carries and its length in pieces
\* (0: no opening tag begins there).
NoTag == [class |-> "none", element |-> "", name |-> "", len |-> 0]

TagAt(t, i) ==
  IF t[i] = ResultTag
    THEN [class |-> "direct", element |-> "function_result", name |-> "function_result", len |-> 1]
  ELSE IF t[i] = ResultHalf /\ i < Len(t) /\ t[i + 1] = ResultRest
    THEN [class |-> "direct", element |-> "function_result", name |-> "function_result", len |-> 2]
  ELSE IF t[i] = CallsTag
    THEN [class |-> "direct", element |-> "function_calls", name |-> "function_calls", len |-> 1]
  ELSE IF t[i] = TagA
    THEN [class |-> "direct", element |-> "a", name |-> "a", len |-> 1]
  ELSE IF t[i] = InvokeF
    THEN [class |-> "invoke", element |-> "invoke", name |-> "f", len |-> 1]
  ELSE IF t[i] = InvokeG
    THEN [class |-> "invoke", element |-> "invoke", name |-> "g", len |-> 1]
  ELSE IF t[i] = Parameter
    THEN [class |-> "parameter", element |-> "parameter", name |-> "p", len |-> 1]
  ELSE NoTag

\* The closing tag of an element.
EndTag(element) ==
  CASE element = "function_result" -> ResultEnd
    [] element = "function_calls" -> CallsEnd
    [] element = "a" -> TagAEnd
    [] element = "invoke" -> InvokeEnd
    [] element = "parameter" -> ParameterEnd
    [] OTHER -> ""

\* The patterns of the parser.  Opens(tag) says which opening tags a pattern
\* takes; its body is [\s\S]*? (any pieces) or [^<]* (plain pieces only).
ResultPattern == [elements |-> {"function_result"}, classes |-> {"direct"}, plain |-> FALSE]
CallsPattern == [elements |-> {"function_calls"}, classes |-> {"direct"}, plain |-> FALSE]
InvokePattern == [elements |-> {"invoke"}, classes |-> {"invoke"}, plain |-> FALSE]
DirectToolPattern ==
  [elements |-> {"function_result", "function_calls", "a"}, classes |-> {"direct"}, plain |-> FALSE]
ParamPattern == [elements |-> {"parameter"}, classes |-> {"parameter"}, plain |-> TRUE]
DirectParamPattern ==
  [elements |-> {"function_result", "function_calls", "a"}, classes |-> {"direct"}, plain |-> TRUE]

Opens(pattern, tag) == tag.class \in pattern.classes /\ tag.element \in pattern.elements

\* The pieces at which the body of a match that opens at piece i may end: j is
\* the closing tag of the element opened at i.
Ends(t, i, pattern) ==
  LET tag == TagAt(t, i)
  IN {j \in (i + tag.len)..Len(t) :
        /\ t[j] = EndTag(tag.element)
        /\ pattern.plain => \A k \in (i + tag.len)..(j - 1) : IsPlain(t[k])}

\* regex.exec(t) with lastIndex = pos: the leftmost match that begins at an
\* offset >= pos, with the shortest body.  Offsets count pieces: the match
\* covers the pieces index + 1 .. lastIndex.
NoMatch == [found |-> FALSE, index |-> 0, lastIndex |-> 0, name |-> "", body |-> << >>]

Min(S) == CHOOSE n \in S : \A m \in S : n <= m

exec(pattern, t, pos) ==
  LET from == {i \in (pos + 1)..Len(t) :
                   Opens(pattern, TagAt(t, i)) /\ Ends(t, i, pattern) # {}}
  IN IF from = {} THEN NoMatch
     ELSE LET i == Min(from)
              j == Min(Ends(t, i, pattern))
          IN [found |-> TRUE, index |-> i - 1, lastIndex |-> j, name |-> TagAt(t, i).name,
              body |-> SubSeq(t, i + TagAt(t, i).len, j - 1)]

\* Every match of a global pattern, from offset pos on, in order.
RECURSIVE matchAll(_, _, _)
matchAll(pattern, t, pos) ==
  LET m == exec(pattern, t, pos)
  IN IF ~m.found THEN << >> ELSE <<m>> \o matchAll(pattern, t, m.lastIndex)

\* t.substring(from, to)
substring(t, from, to) == SubSeq(t, from + 1, to)

\* t.trim()
RECURSIVE trim(_)
trim(t) ==
  IF t = << >> THEN t
  ELSE IF IsSpace(Head(t)) THEN trim(Tail(t))
  ELSE IF IsSpace(t[Len(t)]) THEN trim(SubSeq(t, 1, Len(t) - 1))
  ELSE t

\* Variant: nothing is removed.
removeFunctionResults_keep(t) == t

\* text.replace(/<function_result>[\s\S]*?<\/function_result>/g, '')
RECURSIVE removeFunctionResults(_)
removeFunctionResults(t) ==
  LET m == exec(ResultPattern, t, 0)
  IN IF ~m.found THEN t
     ELSE substring(t, 0, m.index)
          \o removeFunctionResults(substring(t, m.lastIndex, Len(t)))

\* processedText.replace(/<function_calls>[\s\S]*?<\/function_calls>/, block):
\* the first block of the text is replaced.
replaceFirstCalls(t, block) ==
  LET m == exec(CallsPattern, t, 0)
  IN IF ~m.found THEN t
     ELSE substring(t, 0, m.index) \o block \o substring(t, m.lastIndex, Len(t))

\* The loop over functionCallBlocks.
RECURSIVE unwrapFunctionCalls(_, _)
unwrapFunctionCalls(t, blocks) ==
  IF blocks = << >> THEN t
  ELSE unwrapFunctionCalls(replaceFirstCalls(t, Head(blocks).body), Tail(blocks))

ToolCall(m) == [name |-> m.name, params |-> m.body, start |-> m.index, end |-> m.lastIndex]

\* toolCalls.some(tc => ...)
overlaps(toolCalls, matchStart, matchEnd) ==
  \E n \in 1..Len(toolCalls) :
    \/ matchStart >= toolCalls[n].start /\ matchStart < toolCalls[n].end
    \/ matchEnd > toolCalls[n].start /\ matchEnd <= toolCalls[n].end

\* The loop over the matches of directToolRegex.
RECURSIVE directToolCalls(_, _)
directToolCalls(toolCalls, matches) ==
  IF matches = << >> THEN toolCalls
  ELSE LET m == Head(matches)
       IN directToolCalls(IF overlaps(toolCalls, m.index, m.lastIndex)
                          THEN toolCalls
                          ELSE Append(toolCalls, ToolCall(m)),
                          Tail(matches))

\* toolCalls.sort((a, b) => a.start - b.start); the sort is stable.
RECURSIVE sort(_)
sort(toolCalls) ==
  IF toolCalls = << >> THEN << >>
  ELSE LET n == CHOOSE i \in 1..Len(toolCalls) :
                  /\ \A k \in 1..Len(toolCalls) : toolCalls[i].start <= toolCalls[k].start
                  /\ \A k \in 1..(i - 1) : toolCalls[k].start > toolCalls[i].start
       IN <<toolCalls[n]>>
          \o sort(SubSeq(toolCalls, 1, n - 1) \o SubSeq(toolCalls, n + 1, Len(toolCalls)))

\* An args object is the set of its <<name, value>> members.
HasKey(args, key) == \E member \in args : member[1] = key

Set(args, key, value) == {member \in args : member[1] # key} \cup {<<key, value>>}

Get(args, key) == (CHOOSE member \in args : member[1] = key)[2]

\* The loop over the matches of a parameter pattern: args[name] = value.trim()
RECURSIVE assign(_, _)
assign(args, matches) ==
  IF matches = << >> THEN args
  ELSE assign(Set(args, Head(matches).name, trim(Head(matches).body)), Tail(matches))

parseParams(paramBlock) ==
  LET named == matchAll(ParamPattern, paramBlock, 0)
  IN IF named # << >> THEN assign({}, named)
     ELSE assign({}, matchAll(DirectParamPattern, paramBlock, 0))

\* if (from in mappedArgs && !(to in mappedArgs)) { move }
Rename(args, from, to) ==
  IF HasKey(args, from) /\ ~HasKey(args, to)
  THEN {member \in Set(args, to, Get(args, from)) : member[1] # from}
  ELSE args

\* The parameter name mappings of the common tools.
mapArgs(toolName, args) ==
  CASE toolName = "read_file" -> Rename(args, "path", "absolute_path")
    [] toolName = "run_shell_command" -> Rename(args, "cmd", "command")
    [] toolName = "ls" ->
         IF HasKey(args, "directory") /\ ~HasKey(args, "path")
         THEN Rename(args, "directory", "path")
         ELSE Rename(args, "dir", "path")
    [] toolName = "write_file" ->
         Rename(Rename(args, "content", "contents"), "path", "absolute_path")
    [] OTHER -> args

FunctionCall(toolCall) ==
  [name |-> toolCall.name, args |-> mapArgs(toolCall.name, parseParams(toolCall.params))]

\* The text between two calls, or after the last one: pushed when it is not
\* blank, trimmed.
pushText(textParts, t, from, to) ==
  IF to > from /\ trim(substring(t, from, to)) # << >>
  THEN Append(textParts, trim(substring(t, from, to)))
  ELSE textParts

\* The loop over the sorted toolCalls.
RECURSIVE emit_calls(_, _, _, _)
emit_calls(t, toolCalls, lastIndex, out) ==
  IF toolCalls = << >>
  THEN [out EXCEPT !.textParts = pushText(@, t, lastIndex, Len(t))]
  ELSE LET toolCall == Head(toolCalls)
       IN emit_calls(t, Tail(toolCalls), toolCall.end,
                     [textParts |-> pushText(out.textParts, t, lastIndex, toolCall.start),
                      functionCalls |-> Append(out.functionCalls, FunctionCall(toolCall))])

\* Variant: the text parts collected by the loop are returned in every case.
textPartsReturned_collected(t, out) == out.textParts

\* If no tool calls were found, the text is returned as the one text part.
textPartsReturned(t, out) == IF out.functionCalls = << >> THEN <<t>> ELSE out.textParts

\* const name = value; ... : the value is computed once and the rest of the
\* function sees it under that name.
With(value, Rest(_)) == Rest(value)

\* parseAnthropicToolCalls(text).  (removed, text and toolCalls are what the
\* function held on its way: the text after the removal of result blocks, the
\* text that was scanned, and the accepted calls, sorted.)
parseAnthropicToolCalls(input) ==
  With(removeFunctionResults(input), LAMBDA removed :
  With(matchAll(CallsPattern, removed, 0), LAMBDA functionCallBlocks :
  With(unwrapFunctionCalls(removed, functionCallBlocks), LAMBDA t :
  With(matchAll(InvokePattern, t, 0), LAMBDA matches :
  With([n \in 1..Len(matches) |-> ToolCall(matches[n])], LAMBDA invokes :
  With(sort(directToolCalls(invokes, matchAll(DirectToolPattern, t, 0))), LAMBDA toolCalls :
  With(emit_calls(t, toolCalls, 0, [textParts |-> << >>, functionCalls |-> << >>]),
       LAMBDA out :
    [removed |-> removed, text |-> t, toolCalls |-> toolCalls,
     textParts |-> textPartsReturned(t, out),
     functionCalls |-> out.functionCalls])))))))

\* textParts.join('\n')
RECURSIVE join(_)
join(textParts) ==
  IF textParts = << >> THEN << >>
  ELSE IF Len(textParts) = 1 THEN textParts[1]
  ELSE textParts[1] \o <<"\n">> \o join(Tail(textParts))

\* convertAnthropicResponseToParts(text): all the text first, then the calls.
convertAnthropicResponseToParts(input) ==
  With(parseAnthropicToolCalls(input), LAMBDA parsed :
  With(trim(join(parsed.textParts)), LAMBDA combinedText :
  With([n \in 1..Len(parsed.functionCalls) |->
          CallPart(parsed.functionCalls[n].name, parsed.functionCalls[n].args)],
       LAMBDA calls :
    IF combinedText # << >> THEN <<TextPart(combinedText)>> \o calls ELSE calls)))

\* ------------------------------------------- anthropic.ts, generateContent
MaxBlocks == 2    \* content blocks of one response
MaxBlockText == 3 \* pieces of the text of a response without content blocks

\* A content block of the response.  text and input are optional.
TextBlock(text) == [type |-> "text", text |-> text, name |-> << >>, input |-> << >>]

ToolUseBlock(name, input) == [type |-> "tool_use", text |-> << >>, name |-> name, input |-> input]

ThinkingBlock == [type |-> "thinking", text |-> << >>, name |-> << >>, input |-> << >>]

Blocks ==
  {TextBlock(<< <<"x">> >>), TextBlock(<< <<"y">> >>), TextBlock(<< >>),
   TextBlock(<< <<InvokeF, InvokeEnd>> >>),
   ToolUseBlock(<<"f">>, << {<<"a", 1>>} >>), ToolUseBlock(<<"g">>, << >>),
   ThinkingBlock}

\* data.content: an array of blocks, a bare string, an object whose member "0"
\* holds a text, or nothing.
ArrayContent(blocks) == [kind |-> "array", blocks |-> blocks, text |-> << >>]

IndexedContent(text) == [kind |-> "indexed", blocks |-> << >>, text |-> text]

StringContent == [kind |-> "string", blocks |-> << >>, text |-> << >>]

NoContent == [kind |-> "undefined", blocks |-> << >>, text |-> << >>]

BlockTexts == SeqsUpTo({InvokeF, InvokeEnd, ResultTag, ResultEnd, "x", " "}, MaxBlockText)

Contents ==
  {ArrayContent(blocks) : blocks \in SeqsUpTo(Blocks, MaxBlocks)}
  \cup {IndexedContent(<<text>>) : text \in BlockTexts}
  \cup {IndexedContent(<< >>), StringContent, NoContent}

DataUsages ==
  {<< >>,
   <<[input_tokens |-> <<3>>, output_tokens |-> <<4>>]>>,
   <<[input_tokens |-> <<3>>, output_tokens |-> << >>]>>}

\* The body of a successful answer, as response.json() gives it.
Data(content, stop_reason, usage) ==
  [content |-> content, stop_reason |-> stop_reason, usage |-> usage]

Datas ==
  {Data(content, stop_reason, usage) :
     content \in Contents, stop_reason \in {"end_turn", "tool_use"}, usage \in DataUsages}

\* The loop over data.content: text, parts and functionCalls after the blocks.
RECURSIVE contentBlocks(_, _)
contentBlocks(blocks, out) ==
  IF blocks = << >> THEN out
  ELSE LET contentBlock == Head(blocks)
       IN contentBlocks(Tail(blocks),
            IF contentBlock.type = "text"
            THEN [out EXCEPT !.text = @ \o (IF Truthy(contentBlock.text)
                                            THEN contentBlock.text[1] ELSE << >>),
                             !.parts = Append(@, [text |-> contentBlock.text,
                                                  functionCall |-> << >>])]
            ELSE IF contentBlock.type = "tool_use"
            THEN LET functionCall == [name |-> contentBlock.name[1],
                                      args |-> IF contentBlock.input = << >> THEN {}
                                               ELSE contentBlock.input[1]]
                 IN [out EXCEPT !.functionCalls = Append(@, functionCall),
                                !.parts = Append(@, CallPart(functionCall.name,
                                                             functionCall.args))]
            ELSE out)

\* The branch of generateContent for data.content an array.
structuredParts(blocks) ==
  contentBlocks(blocks, [text |-> << >>, parts |-> << >>, functionCalls |-> << >>])

\* data.content?.[0]?.text || ''
firstText(content) ==
  IF content.kind = "indexed" /\ Truthy(content.text) THEN content.text[1] ELSE << >>

\* The fallback branch of generateContent: the calls the parser finds, or else
\* the text.
fallbackParts(content) ==
  With(firstText(content), LAMBDA t :
  With(parseAnthropicToolCalls(t), LAMBDA parsed :
  With([n \in 1..Len(parsed.functionCalls) |->
          CallPart(parsed.functionCalls[n].name, parsed.functionCalls[n].args)],
       LAMBDA calls :
    [text |-> t,
     parts |-> IF calls # << >> THEN calls
               ELSE IF t # << >> THEN <<TextPart(t)>> ELSE << >>,
     functionCalls |-> parsed.functionCalls])))

\* usageMetadata of the response of generateContent: an object, whatever
\* data.usage is.
syncUsageMetadata(usage) ==
  LET input_tokens == IF usage = << >> THEN << >> ELSE usage[1].input_tokens
      output_tokens == IF usage = << >> THEN << >> ELSE usage[1].output_tokens
  IN <<[promptTokenCount |-> input_tokens,
        candidatesTokenCount |-> output_tokens,
        totalTokenCount |-> Add(input_tokens, output_tokens)]>>

\* generateContent after `await response.json()`: the value it resolves with.
\* (If no parts were created and there is text, the text is added: both
\* branches have done so already.)
toResponse(data) ==
  With(IF data.content.kind = "array" THEN structuredParts(data.content.blocks)
       ELSE fallbackParts(data.content), LAMBDA out :
  With(IF out.parts = << >> /\ out.text # << >> THEN <<TextPart(out.text)>>
       ELSE out.parts, LAMBDA parts :
    Fragment(out.text, parts,
             IF data.stop_reason = "end_turn" THEN "STOP" ELSE data.stop_reason,
             syncUsageMetadata(data.usage))))

\* The answers of the backend to the POST: a success with a body, a success
\* without one, and failures.  (data is what response.json() gives.)
Failures ==
  {[ok |-> FALSE, status |-> 500, body |-> TRUE, text |-> <<"overloaded">>, data |-> << >>],
   [ok |-> FALSE, status |-> 401, body |-> TRUE, text |-> << >>, data |-> << >>]}

Responses ==
  {[ok |-> TRUE, status |-> 200, body |-> TRUE, text |-> << >>, data |-> << >>],
   [ok |-> TRUE, status |-> 200, body |-> FALSE, text |-> << >>, data |-> << >>]}
  \cup Failures

\* The answers to the POST of generateContent.
DataResponses ==
  {[ok |-> TRUE, status |-> 200, body |-> TRUE, text |-> << >>, data |-> <<data>>] :
     data \in Datas}
  \cup Failures

ResponsesTo(entry) == IF entry = "generateContent" THEN DataResponses ELSE Responses

\* throw new Error(`Anthropic API error: ${response.status} - ${errorText}`)
ApiError(response) ==
  [message |-> "Anthropic API error", status |-> response.status, text |-> response.text]

NoReaderError == [message |-> "No response body reader available", status |-> 0, text |-> << >>]

throw(s, error) == [s EXCEPT !.gen.pc = "thrown", !.gen.error = <<error>>]

\* fetch(`${this.baseUrl}/v1/messages`, ...)
fetch(s, entry) ==
  [s EXCEPT !.requests = Append(@, [by |-> entry, response |-> << >>]),
            !.gen.pc = "fetch",
            !.gen.entry = entry]

\* generateContentStream(): the call only creates the generator.
generateContentStream(s) ==
  [s EXCEPT !.gen = [NoCall EXCEPT !.pc = "start", !.entry = "generateContentStream"]]

\* generateContent(): the call runs up to its await of fetch.
generateContent(s) == fetch(s, "generateContent")

\* Variant: a failed request is sent once more.
fetchResponds_retry(s, response) ==
  LET s1 == [s EXCEPT !.requests[Len(s.requests)].response = <<response>>]
  IN IF ~response.ok
     THEN IF Len(s.requests) < 2 THEN fetch(s1, s.gen.entry)
          ELSE throw(s1, ApiError(response))
     ELSE IF s.gen.entry = "generateContent"
       THEN [s1 EXCEPT !.gen.pc = "resolved",
                       !.gen.result = <<toResponse(response.data[1])>>]
     ELSE IF ~response.body THEN throw(s1, NoReaderError)
     ELSE [s1 EXCEPT !.gen.pc = "read"]

\* The continuation of the await of fetch (and of response.text()).
\* (requests keeps the answer each request got.)
fetchResponds(s, response) ==
  LET s1 == [s EXCEPT !.requests[Len(s.requests)].response = <<response>>]
  IN IF ~response.ok THEN throw(s1, ApiError(response))
     ELSE IF s.gen.entry = "generateContent"
       THEN [s1 EXCEPT !.gen.pc = "resolved",
                       !.gen.result = <<toResponse(response.data[1])>>]
     ELSE IF ~response.body THEN throw(s1, NoReaderError)
     ELSE [s1 EXCEPT !.gen.pc = "read"]

\* The consumer's next(): a new generator runs up to its await of fetch, a
\* suspended one goes on after its yield.
next(s) ==
  IF s.gen.pc = "start" THEN fetch(s, "generateContentStream")
  ELSE processLines(IF s.gen.resume = "tool"
                    THEN [s EXCEPT !.gen.currentToolCall = << >>]
                    ELSE s)

\* Variant: what is left of a chunk after its last newline is not kept.
read_noCarry(s, k) ==
  LET buffer == SubSeq(s.inflight, 1, k)
      lines == split(buffer)
  IN processLines([s EXCEPT !.inflight = SubSeq(@, k + 1, Len(@)),
                            !.gen.buffer = << >>,
                            !.gen.lines = SubSeq(lines, 1, Len(lines) - 1)])

\* reader.read() resolves with the first k unread pieces.
read(s, k) ==
  LET buffer == s.gen.buffer \o SubSeq(s.inflight, 1, k)
      lines == split(buffer)
  IN processLines([s EXCEPT !.inflight = SubSeq(@, k + 1, Len(@)),
                            !.gen.buffer = lines[Len(lines)],
                            !.gen.lines = SubSeq(lines, 1, Len(lines) - 1)])

\* reader.read() resolves with done: the loop ends and the generator returns.
readDone(s) == [s EXCEPT !.gen.pc = "done"]

\* The consumer's return(): the generator is abandoned at its yield.
return(s) == [s EXCEPT !.gen.pc = "returned"]

\* --------------------------------------------------------------- actions
StreamCall ==
  /\ gen.pc = "none"
  /\ PvBecomes(generateContentStream(Pv))

GenerateCall ==
  /\ gen.pc = "none"
  /\ PvBecomes(generateContent(Pv))

FetchResponds ==
  /\ gen.pc = "fetch"
  /\ \E response \in ResponsesTo(gen.entry) : PvBecomes(fetchResponds(Pv, response))

ConsumerNext ==
  /\ gen.pc \in {"start", "yield"}
  /\ PvBecomes(next(Pv))

ConsumerReturn ==
  /\ gen.pc = "yield"
  /\ PvBecomes(return(Pv))

\* The backend writes a line to the response body.
BackendSend ==
  /\ gen.pc \in {"read", "yield"}
  /\ ~closed
  /\ Len(sent) < MaxLines
  /\ Len(inflight) <= MaxUnread
  /\ \E line \in Lines :
       PvBecomes([Pv EXCEPT !.sent = Append(@, line),
                            !.inflight = @ \o line \o <<NL>>])

\* (The reader sees the end of the body after every piece of it, whenever the
\* backend ended it.)
BackendClose ==
  /\ gen.pc = "read"
  /\ inflight = << >>
  /\ ~closed
  /\ PvBecomes([Pv EXCEPT !.closed = TRUE])

ReadChunk ==
  /\ gen.pc = "read"
  /\ \E k \in 1..Len(inflight) : PvBecomes(read(Pv, k))

ReadDone ==
  /\ gen.pc = "read"
  /\ inflight = << >>
  /\ closed
  /\ PvBecomes(readDone(Pv))

AdapterInit == Constructed /\ callBudget = 0 /\ ProviderUnused /\ ParserUnused

AdapterNext ==
  \/ StreamCall
  \/ GenerateCall
  \/ FetchResponds
  \/ ConsumerNext
  \/ ConsumerReturn
  \/ BackendSend
  \/ BackendClose
  \/ ReadChunk
  \/ ReadDone

AdapterSpec == AdapterInit /\ [][AdapterNext]_vars

\* ------------------------------------------------------- the parser alone
\* parseAnthropicToolCalls(parserText)
ParseCall ==
  /\ parserRun.pc = "none"
  /\ parserRun' = [pc |-> "parsed", result |-> <<parseAnthropicToolCalls(parserText)>>,
                   parts |-> << >>]
  /\ UNCHANGED <<parserText, serviceVars, providerVars>>

\* convertAnthropicResponseToParts(parserText)
ConvertCall ==
  /\ parserRun.pc = "none"
  /\ parserRun' = [pc |-> "converted", result |-> <<parseAnthropicToolCalls(parserText)>>,
                   parts |-> convertAnthropicResponseToParts(parserText)]
  /\ UNCHANGED <<parserText, serviceVars, providerVars>>

ParserInit ==
  /\ Constructed /\ callBudget = 0 /\ ProviderUnused
  /\ parserText \in Texts
  /\ parserRun = NoRun

ParserNext == ParseCall \/ ConvertCall

ParserSpec == ParserInit /\ [][ParserNext]_vars

\* ------------------------------------------------------ vocabulary of claims

CmdIds == 1..Len(cmds)

Settled(c) == outcome[c] # << >>

Count(seq, Test(_)) == Cardinality({i \in 1..Len(seq) : Test(seq[i])})

DequeueCount(c) == Count(dequeued, LAMBDA d : d.cmd = c)

Dispatched(c) == \E i \in 1..Len(dequeued) : dequeued[i] = [cmd |-> c, by |-> "dispatch"]

InstructionWrites(c) == Count(stdinLog, LAMBDA w : w.cmd = c /\ w.kind = "instruction")

InQueue(c) == \E i \in 1..Len(commandQueue) : commandQueue[i] = c

\* The lines of commands in the stdin history (the '/exit' of stop() has cmd 0).
CommandLines == {i \in 1..Len(stdinLog) : stdinLog[i].cmd # 0}

\* ------------------------------------------------------------------------ C1
\* C1: at every moment at most one dispatched command is unsettled, and it is
\* the one in the currentCommand slot; whenever a line of command B has been
\* written to a subprocess after a line of another command A, A is settled
\* (the lines of one command are never interleaved with those of another).
C1_OneInFlight ==
  /\ Cardinality({c \in CmdIds : Dispatched(c) /\ ~Settled(c)}) <= 1
  /\ \A c \in CmdIds : Dispatched(c) /\ ~Settled(c) => currentCommand = c
  /\ \A i, j \in CommandLines :
       i < j /\ stdinLog[i].cmd # stdinLog[j].cmd => Settled(stdinLog[i].cmd)
  /\ \A i, j, k \in CommandLines :
       i < j /\ j < k /\ stdinLog[i].cmd = stdinLog[k].cmd
         => stdinLog[j].cmd = stdinLog[i].cmd

\* A command of execute() had its instruction written, and later the file
\* directives of another command of execute() were written.
C1_Witness ==
  \E i, j \in CommandLines :
    /\ i < j
    /\ stdinLog[i].cmd # stdinLog[j].cmd
    /\ stdinLog[i].kind = "instruction" /\ stdinLog[j].kind = "add"
    /\ cmds[stdinLog[i].cmd].kind = "user" /\ cmds[stdinLog[j].cmd].kind = "user"

\* ------------------------------------------------------------------------ C2
\* The commands in flight or queued.
Pending == {c \in CmdIds : c = currentCommand \/ InQueue(c)}

\* A step in which the close handler of a subprocess runs.
IsCloseStep ==
  \E p \in 1..Len(procs) :
    procs[p].state \in {"running", "killed"} /\ procs'[p].state \in {"exited", "closed"}

\* C2: the step in which a subprocess's close handler runs leaves no command
\* in flight and an empty queue, and every command that was in flight or
\* queued gets exactly one outcome in it: the rejection with the termination
\* error.
C2_ExitRejectsAll ==
  [][IsCloseStep =>
       /\ currentCommand' = 0
       /\ commandQueue' = << >>
       /\ \A c \in Pending :
            outcome'[c] = <<[how |-> "reject", by |-> "exit", result |-> << >>]>>]_vars

\* An exit has rejected a command that was in flight and one that was queued.
C2_Witness ==
  \E a, b \in CmdIds :
    /\ a # b
    /\ outcome[a] # << >> /\ outcome[a][1].by = "exit"
    /\ outcome[b] # << >> /\ outcome[b][1].by = "exit"
    /\ Dispatched(a)
    /\ \E i \in 1..Len(dequeued) : dequeued[i] = [cmd |-> b, by |-> "reject"]

\* ------------------------------------------------------------------------ C3
\* C3: every command is taken off the queue at most once, has its instruction
\* written at most once and is settled at most once; a settled command has
\* left the queue (exactly one dequeue), a queued one is neither dequeued nor
\* settled, and the command in flight is dispatched and not settled.  The
\* outcome history is append-only, so the first settlement is the one that
\* stands.
C3_ExactlyOnce ==
  \A c \in CmdIds :
    /\ Len(outcome[c]) <= 1
    /\ DequeueCount(c) <= 1
    /\ InstructionWrites(c) <= 1
    /\ Settled(c) => DequeueCount(c) = 1
    /\ InstructionWrites(c) = 1 => Dispatched(c)
    /\ InQueue(c) => DequeueCount(c) = 0 /\ ~Settled(c)
    /\ currentCommand = c => Dispatched(c) /\ ~Settled(c)

\* A command was settled by its completion marker, and every timer armed so
\* far (its own among them) has fired since.
C3_Witness ==
  \E c \in CmdIds :
    /\ cmds[c].kind = "user"
    /\ Settled(c) /\ outcome[c][1].by = "output"
    /\ timers = << >>
    /\ \E d \in CmdIds : d # c /\ Settled(d) /\ outcome[d][1].by = "timeout"

\* ------------------------------------------------------------------------ C4
\* C4: a command settled by the firing of the timeout is settled as a
\* failure (its caller gets an error).
C4_TimeoutRejects ==
  \A c \in CmdIds :
    Settled(c) /\ outcome[c][1].by = "timeout" => outcome[c][1].how = "reject"

\* ------------------------------------------------------------------------ C5
\* C5: a command is only ever settled with output the subprocess produced for
\* it: no chunk of a result was printed in answer to another command.
C5_OwnOutputOnly ==
  \A c \in CmdIds : \A k \in 1..Len(outcome[c]) :
    \A i \in 1..Len(outcome[c][k].result) : outcome[c][k].result[i].for \in {0, c}

\* ------------------------------------------------------------------------ C6
\* The dispatches of commands of execute(), as positions in the dequeue history.
UserDispatches ==
  {i \in 1..Len(dequeued) : dequeued[i].by = "dispatch" /\ cmds[dequeued[i].cmd].kind = "user"}

\* C6: the commands of execute() are dispatched in the order of their
\* execute() calls.
C6_FifoByCall ==
  \A i, j \in UserDispatches :
    i < j => cmds[dequeued[i].cmd].owner.idx < cmds[dequeued[j].cmd].owner.idx

\* ------------------------------------------------------------------------ C7
\* C7: of two getRepoMap() calls made within the TTL of each other, at most
\* one issues a '/map' command.  (A call time of 0 has left the time window
\* and is not compared.)
C7_OneRegenerationPerTTL ==
  \A g, h \in 1..Len(maps) :
    /\ g < h
    /\ maps[g].at > 0
    /\ maps[h].at - maps[g].at < REPO_MAP_CACHE_TTL
    => ~(maps[g].cmd # 0 /\ maps[h].cmd # 0)

\* ------------------------------------------------------------------------ C8
\* The regeneration of call g failed: its '/map' command was rejected, or none
\* was issued because no subprocess was running.
RegenerationFailed(m, out) ==
  /\ m.state = "returned"
  /\ ~m.hit
  /\ m.cmd = 0 \/ (out[m.cmd] # << >> /\ out[m.cmd][1].how = "reject")

\* C8 as stated: a getRepoMap() whose regeneration failed returned ''.
C8_FailureReturnsEmpty ==
  \A g \in 1..Len(maps) : RegenerationFailed(maps[g], outcome) => maps[g].ret = << >>

\* Call g returns in this step.
ReturnsNow(g) ==
  /\ maps'[g].state = "returned"
  /\ g > Len(maps) \/ maps[g].state = "waiting"

\* C8 as amended: the step in which a getRepoMap() whose regeneration failed
\* returns hands back the map the cache holds at that moment (a stale one
\* included), '' when it holds none, and leaves the cache as it was.
C8_FailureReturnsCache ==
  [][\A g \in 1..Len(maps') :
       ReturnsNow(g) /\ RegenerationFailed(maps'[g], outcome')
         => /\ maps'[g].ret = CacheOrEmpty(repoMapCache)
            /\ repoMapCache' = repoMapCache
            /\ lastRepoMapTime' = lastRepoMapTime]_vars

\* A getRepoMap() whose '/map' command was rejected returned a stale map.
C8_Witness ==
  \E g \in 1..Len(maps) :
    /\ RegenerationFailed(maps[g], outcome)
    /\ maps[g].cmd # 0
    /\ maps[g].ret # << >>

\* ------------------------------------------------------------------------ C9
StartIds == 1..(MaxStart + MaxExec)

WaitsForReady(i) == i <= Len(starts) /\ starts[i].state = "waitReady"

\* C9: every start() that waits for the readiness signal stops waiting
\* (startup ends in finite time, whatever the subprocess does).
C9_StartupEnds == \A i \in StartIds : WaitsForReady(i) ~> ~WaitsForReady(i)

\* ----------------------------------------------------------------------- C10
\* A call creates at most two commands (execute(): the '/map' of its start()
\* and its own).
MaxCommands == 2 * MaxFairCalls

Unsettled(c) == c <= Len(cmds) /\ outcome[c] = << >>

\* C10: every command that has been created (queued or in flight) is
\* eventually settled.
C10_EverySettled == \A c \in 1..MaxCommands : Unsettled(c) ~> ~Unsettled(c)

\* Two commands were dispatched one after the other and each was settled by
\* the timeout.
C10_Witness ==
  \E c, d \in CmdIds :
    /\ Len(dequeued) >= 2
    /\ dequeued[1] = [cmd |-> d, by |-> "dispatch"]
    /\ dequeued[2] = [cmd |-> c, by |-> "dispatch"]
    /\ Settled(d) /\ outcome[d][1].by = "timeout"
    /\ Settled(c) /\ outcome[c][1].by = "timeout"

\* ====================================================== C11 .. C16 vocabulary
\* The event written as line n of the response body (NoEvent for a line that
\* carries none).
EventAt(n) ==
  IF Len(sent[n]) = 2 /\ sent[n][1].a = "data: " /\ sent[n][2].a = "json"
  THEN sent[n][2].ev
  ELSE NoEvent

IsToolStart(n) == EventAt(n).type = "content_block_start" /\ EventAt(n).block = <<"tool_use">>

IsArgumentDelta(n) == EventAt(n).type = "content_block_delta" /\ EventAt(n).partial_json # << >>

IsTextDelta(n) == EventAt(n).type = "content_block_delta" /\ EventAt(n).text # << >>

IsBlockStop(n) == EventAt(n).type = "content_block_stop"

IsMessageStop(n) == EventAt(n).type = "message_stop"

\* The lines the reconstructor has gone through (a fragment it made for the
\* last of them may be in the consumer's hands at this moment).
Seen == 1..gen.lineNo

\* The reconstructor has gone past line n: it was resumed after the fragment
\* it made for n, if any.
Past(n) == n < gen.lineNo \/ (n = gen.lineNo /\ gen.pc \in {"read", "done"})

\* The positions in yielded of the fragments made for line n.
FragmentsAt(n) == {i \in 1..Len(yielded) : yielded[i].line = n}

IsInvocation(fragment) ==
  \E p \in 1..Len(fragment.parts) : fragment.parts[p].functionCall # << >>

Invocations == {i \in 1..Len(yielded) : IsInvocation(yielded[i].fragment)}

\* The argument text of the deltas on lines a+1 .. b-1, in arrival order.
RECURSIVE ArgumentText(_, _)
ArgumentText(a, b) ==
  IF a + 1 >= b THEN << >>
  ELSE (IF IsArgumentDelta(a + 1) THEN EventAt(a + 1).partial_json[1] ELSE << >>)
       \o ArgumentText(a + 1, b)

\* The object a JSON text denotes; no value for what is no JSON text.
Decodes(json) ==
  \/ json = <<"{", "}">>
  \/ json = <<"{", "a1", "}">>

Decoded(json) == IF json = <<"{", "a1", "}">> THEN {<<"a", 1>>} ELSE {}

\* ----------------------------------------------------------------------- C11
\* C11: when the reconstructor has seen a tool-block-start naming f on line a,
\* then only tool-argument-deltas, then a tool-block-stop on line b, it has
\* emitted no invocation for the lines a .. b-1 and exactly one fragment for
\* line b: one invocation part with name f and, as arguments, the decoding of
\* the deltas' texts concatenated in arrival order.
C11_CompletedCall ==
  \A a, b \in Seen :
    /\ a < b
    /\ IsToolStart(a) /\ IsBlockStop(b)
    /\ \A j \in (a + 1)..(b - 1) : IsArgumentDelta(j)
    /\ Decodes(ArgumentText(a, b))
    => /\ \A j \in a..(b - 1) : FragmentsAt(j) = {}
       /\ \E i \in 1..Len(yielded) :
            /\ FragmentsAt(b) = {i}
            /\ yielded[i].fragment.parts =
                 <<CallPart(EventAt(a).name[1], Decoded(ArgumentText(a, b)))>>

\* start("f"), delta('{"a":1'), delta('}'), stop has produced {name: "f",
\* arguments: {a: 1}}.
C11_Witness ==
  /\ Len(sent) = 4 /\ gen.lineNo = 4
  /\ EventAt(1) = ToolBlockStart(<<"f">>)
  /\ EventAt(2) = ArgumentDelta(<<"{", "a1">>)
  /\ EventAt(3) = ArgumentDelta(<<"}">>)
  /\ EventAt(4) = BlockStop
  /\ Len(yielded) = 1
  /\ yielded[1].fragment.parts = <<CallPart(<<"f">>, {<<"a", 1>>})>>

\* ----------------------------------------------------------------------- C12
\* C12: an invocation is only ever emitted for a tool-block-start whose
\* tool-block-stop arrived before the stream ended and before any
\* message-stop: every invocation fragment was made for a tool-block-stop on
\* some line b, and the last tool-block-start before b has no message-stop
\* between it and b.
C12_NoUnterminatedCall ==
  \A i \in Invocations :
    LET b == yielded[i].line
    IN /\ IsBlockStop(b)
       /\ \E a \in 1..(b - 1) :
            /\ IsToolStart(a)
            /\ \A j \in (a + 1)..(b - 1) : ~IsToolStart(j) /\ ~IsMessageStop(j)

\* ----------------------------------------------------------------------- C13
\* C13: once the reconstructor has gone past a message-stop, it holds no
\* pending invocation until the next tool-block-start.
C13_NoPendingAcrossMessageStop ==
  \A n \in Seen :
    /\ IsMessageStop(n)
    /\ Past(n)
    /\ \A j \in (n + 1)..gen.lineNo : ~IsToolStart(j)
    => gen.currentToolCall = << >>

\* ----------------------------------------------------------------------- C14
\* Line a holds the tool-block-start of the invocation that is pending when
\* line b arrives: no other start, no block stop and no message stop lies
\* between them.
PendingFrom(a, b) ==
  /\ a < b
  /\ IsToolStart(a)
  /\ \A j \in (a + 1)..(b - 1) : ~IsToolStart(j) /\ ~IsBlockStop(j) /\ ~IsMessageStop(j)

\* C14: when a tool-block-stop arrives on line b and the argument text
\* accumulated for the pending invocation is no JSON text, exactly one fragment
\* is emitted for line b, an invocation with the pending name and the empty
\* argument object; no error is raised; once the consumer has asked for more,
\* nothing is pending; and the events after b are handled as usual (a
\* text delta after b has its fragment).
C14_MalformedArguments ==
  \A a, b \in Seen :
    PendingFrom(a, b) /\ IsBlockStop(b) /\ ~Decodes(ArgumentText(a, b))
    => /\ \E i \in 1..Len(yielded) :
            /\ FragmentsAt(b) = {i}
            /\ yielded[i].fragment.parts = <<CallPart(EventAt(a).name[1], {})>>
       /\ gen.pc # "thrown"
       /\ Past(b) /\ (\A j \in (b + 1)..gen.lineNo : ~IsToolStart(j))
            => gen.currentToolCall = << >>
       /\ \A c \in Seen :
            c > b /\ IsTextDelta(c) /\ EventAt(c).text[1] # << >> => FragmentsAt(c) # {}

\* start("f"), delta('{"a":1'), stop, text("hi") has produced {name: "f",
\* arguments: {}} and then the text.
C14_Witness ==
  /\ Len(sent) = 4 /\ gen.lineNo = 4
  /\ EventAt(1) = ToolBlockStart(<<"f">>)
  /\ EventAt(2) = ArgumentDelta(<<"{", "a1">>)
  /\ EventAt(3) = BlockStop
  /\ EventAt(4) = TextDelta(<<"hi">>)
  /\ Len(yielded) = 2
  /\ yielded[1].fragment.parts = <<CallPart(<<"f">>, {})>>
  /\ yielded[2].fragment.parts = <<TextPart(<<"hi">>)>>

\* ----------------------------------------------------------------------- C15
\* The usage metadata of a message-stop event: absent when the event carries
\* no usage, else its counts and their sum.
FinalUsage(ev) ==
  IF ev.usage = << >> THEN << >>
  ELSE <<[promptTokenCount |-> ev.usage[1].input_tokens,
          candidatesTokenCount |-> ev.usage[1].output_tokens,
          totalTokenCount |-> Number(ev.usage[1].input_tokens[1]
                                     + ev.usage[1].output_tokens[1])]>>

\* C15: each message-stop the reconstructor has seen has exactly one fragment,
\* with finishReason STOP and the event's usage metadata; every fragment made
\* for anything else has neither finishReason STOP nor usage metadata.
C15_UsageOnlyAtMessageStop ==
  /\ \A n \in Seen :
       IsMessageStop(n) =>
         \E i \in 1..Len(yielded) :
           /\ FragmentsAt(n) = {i}
           /\ yielded[i].fragment.finishReason = "STOP"
           /\ yielded[i].fragment.usageMetadata = FinalUsage(EventAt(n))
  /\ \A i \in 1..Len(yielded) :
       ~IsMessageStop(yielded[i].line) =>
         /\ yielded[i].fragment.finishReason # "STOP"
         /\ yielded[i].fragment.usageMetadata = << >>

\* A text, a completed call and a message-stop with usage were seen, in this
\* order.
C15_Witness ==
  /\ Len(yielded) = 3
  /\ yielded[1].fragment.parts = <<TextPart(<<"hi">>)>>
  /\ IsInvocation(yielded[2].fragment)
  /\ yielded[3].fragment.finishReason = "STOP"
  /\ yielded[3].fragment.usageMetadata =
       <<[promptTokenCount |-> <<3>>, candidatesTokenCount |-> <<4>>,
          totalTokenCount |-> Number(7)]>>

\* ----------------------------------------------------------------------- C16
\* C16: every text-delta event the reconstructor has seen has exactly one
\* fragment, made of one text part with the event's text; the fragments are in
\* the order of the lines they were made for; no fragment has more than one
\* part.
C16_TextDeltasInOrder ==
  /\ \A n \in Seen :
       IsTextDelta(n) =>
         \E i \in 1..Len(yielded) :
           /\ FragmentsAt(n) = {i}
           /\ yielded[i].fragment.parts = <<TextPart(EventAt(n).text[1])>>
  /\ \A i, j \in 1..Len(yielded) : i < j => yielded[i].line < yielded[j].line
  /\ \A i \in 1..Len(yielded) : Len(yielded[i].fragment.parts) <= 1

\* ============================================================== C17 .. C19
\* The identifier names the alternate-provider family.
IsAlternate(modelName) ==
  /\ modelName # << >>
  /\ \E i \in 1..Len(modelName[1]) : modelName[1][i] \in {"claude", "Claude", "anthropic"}

\* The identifier matches one of the native family's name patterns.
IsNative(modelName) ==
  /\ modelName # << >>
  /\ \E i \in 1..Len(modelName[1]) : modelName[1][i] \in {"gemini", "bison", "gecko"}

\* The identifier is absent or ''.
IsEmpty(modelName) == modelName \in {<< >>, << << >> >>}

\* The required variables that are unset or empty in e.
Missing(e) ==
  {v \in {"ANTHROPIC_AUTH_TOKEN", "ANTHROPIC_BASE_URL"} : e[v] \in {<< >>, << << >> >>}}

\* ----------------------------------------------------------------------- C17
\* C17: a call for an identifier of the alternate family made while the auth
\* token or the base URL is missing raised a configuration error that names
\* the missing variables (so it returned neither nil nor an adapter), and no
\* network request was made.
C17_MisconfiguredRaises ==
  \A c \in selects :
    IsAlternate(c.modelName) /\ Missing(c.env) # {}
      => /\ c.result.kind = "error"
         /\ Missing(c.env) \subseteq c.result.names
         /\ requests = << >>

\* The alternate family was asked for, once written with a capital, with the
\* token set and no base URL, and once with an empty token and a base URL.
C17_Witness ==
  \E c, d \in selects :
    /\ c.modelName = << <<"Claude", "-x">> >> /\ Missing(c.env) = {"ANTHROPIC_BASE_URL"}
    /\ IsAlternate(d.modelName) /\ d.env.ANTHROPIC_AUTH_TOKEN = << << >> >>
    /\ d.env.ANTHROPIC_BASE_URL # << >>
    /\ c.result.kind = "error" /\ d.result.kind = "error"

C20_TransportFailure ==
  \A r \in 1..Len(requests) :
    requests[r].response # << >> /\ ~requests[r].response[1].ok
    => /\ gen.pc = "thrown"
       /\ Len(gen.error) = 1
       /\ gen.error[1].status = requests[r].response[1].status
       /\ gen.error[1].text = requests[r].response[1].text
       /\ yielded = << >>
       /\ Len(requests) = 1

\* The streaming call failed with status 500 and the body text.
C20_Witness ==
  /\ gen.entry = "generateContentStream"
  /\ gen.pc = "thrown"
  /\ gen.error = <<[message |-> "Anthropic API error", status |-> 500,
                    text |-> <<"overloaded">>]>>
  /\ Len(requests) = 1

\* ----------------------------------------------------------------------- C29
\* C29: at the moment an invocation fragment is handed to the consumer (the
\* generator is suspended at the yield of a completed tool call), the pending
\* invocation name and argument text have already been cleared.
C29_ClearedBeforeEmit ==
  (gen.pc = "yield" /\ gen.resume = "tool") => gen.currentToolCall = << >>

\* ----------------------------------------------------------------------- C30
\* Every subprocess spawned so far has exited (its close event was handled).
AllExited ==
  /\ procs # << >>
  /\ \A p \in 1..Len(procs) : procs[p].state \in {"exited", "closed"}

\* The execute() invocations that found the service Stopped and started a
\* subprocess of their own.
StartedBy(e) == {i \in 1..Len(starts) : starts[i].exec = e /\ starts[i].proc # 0}

\* C30: after subprocess exit, from whatever state, the service is Stopped:
\* isRunning() is false, no command is in flight and the queue is empty (seen
\* between event handlers, when no continuation is left to run); and an
\* execute() that finds the service Stopped starts a fresh subprocess before
\* its command is created and dispatched.
C30_StoppedAfterExit ==
  /\ (Idle /\ AllExited) =>
       (aiderProcess = 0 /\ currentCommand = 0 /\ commandQueue = << >>)
  /\ \A e \in 1..Len(execs) :
       \A i \in StartedBy(e) : execs[e].cmd # 0 => starts[i].state = "done"

\* ------------------------------------------------- C21 .. C23 vocabulary
\* The synchronous call resolved; Response is what it resolved with and
\* Answer is the body the backend answered with.
Resolved == gen.pc = "resolved"

Response == gen.result[1]

Answer == requests[Len(requests)].response[1].data[1]

\* Every canonical response handed out so far.
Canonical ==
  {yielded[i].fragment : i \in 1..Len(yielded)}
  \cup (IF Resolved THEN {Response} ELSE {})

\* ----------------------------------------------------------------------- C23
\* C23: in every canonical response (the synchronous one and each streaming
\* fragment) whose usage metadata has both the prompt count and the
\* completion count, the total is their sum.
C23_TotalIsSum ==
  \A r \in Canonical :
    \A u \in {r.usageMetadata[i] : i \in 1..Len(r.usageMetadata)} :
      (u.promptTokenCount # << >> /\ u.candidatesTokenCount # << >>) =>
        u.totalTokenCount = Number(u.promptTokenCount[1] + u.candidatesTokenCount[1])

\* The synchronous call resolved with the counts 3 and 4 and the total 7.
C23_Witness ==
  /\ Resolved
  /\ Answer.usage = <<[input_tokens |-> <<3>>, output_tokens |-> <<4>>]>>
  /\ Response.usageMetadata =
       <<[promptTokenCount |-> <<3>>, candidatesTokenCount |-> <<4>>,
          totalTokenCount |-> Number(7)]>>

\* ----------------------------------------------------------------------- C21
\* The structured tool-use blocks of the answer, as calls, in order.
ToolUses(data) ==
  LET blocks == SelectSeq(data.content.blocks, LAMBDA b : b.type = "tool_use")
  IN [n \in 1..Len(blocks) |->
        [name |-> blocks[n].name[1],
         args |-> IF blocks[n].input = << >> THEN {} ELSE blocks[n].input[1]]]

\* The calls of the invocation parts of a response, in order.
CallsOf(parts) ==
  LET calls == SelectSeq(parts, LAMBDA part : part.functionCall # << >>)
  IN [n \in 1..Len(calls) |-> calls[n].functionCall[1]]

\* C21: the synchronous call builds the invocation parts of its response from
\* the structured tool-use blocks of the answer when there are any; when there
\* is none, the raw text of the answer goes through the tag parser, and each
\* tagged call written in the text is an invocation part of the response.
C21_ParserWithoutToolUse ==
  Resolved =>
    IF ToolUses(Answer) # << >>
    THEN CallsOf(Response.parts) = ToolUses(Answer)
    ELSE CallsOf(Response.parts) = parseAnthropicToolCalls(Response.text).functionCalls

\* ------------------------------------------------- C22 .. C28 vocabulary
\* The parser was called (alone, or by the conversion to parts); Parsed is
\* what it returned.
Called == parserRun.pc # "none"

Parsed == parserRun.result[1]

Converted == parserRun.pc = "converted"

\* ----------------------------------------------------------------------- C22
\* The kinds of what a text holds, in the order of the text: its calls, and
\* the text segments before, between and after them that are not blank.
RECURSIVE SourceKinds(_, _, _)
SourceKinds(t, toolCalls, lastIndex) ==
  LET Segment(from, to) == IF trim(substring(t, from, to)) = << >> THEN << >>
                           ELSE <<"text">>
  IN IF toolCalls = << >> THEN Segment(lastIndex, Len(t))
     ELSE Segment(lastIndex, Head(toolCalls).start) \o <<"call">>
          \o SourceKinds(t, Tail(toolCalls), Head(toolCalls).end)

\* The kinds of the parts of a response, in order; text parts that follow
\* one another count once.
RECURSIVE PartKinds(_)
PartKinds(parts) ==
  IF parts = << >> THEN << >>
  ELSE LET kind == IF Head(parts).functionCall # << >> THEN "call" ELSE "text"
           rest == PartKinds(Tail(parts))
       IN IF kind = "text" /\ rest # << >> /\ Head(rest) = "text" THEN rest
          ELSE <<kind>> \o rest

\* C22: the parts the conversion returns are in the order of what they come
\* from in the text: a text part precedes a call when its text precedes the
\* call, and follows it when its text follows the call.
C22_OrderPreserved ==
  Converted => PartKinds(parserRun.parts) = SourceKinds(Parsed.text, Parsed.toolCalls, 0)

\* ----------------------------------------------------------------------- C24
\* A text has a recognizable tag when an opening tag in it is followed,
\* anywhere later, by the closing tag of the same element.
HasTag(t) ==
  \E i \in 1..Len(t) :
    /\ TagAt(t, i) # NoTag
    /\ \E j \in (i + TagAt(t, i).len)..Len(t) : t[j] = EndTag(TagAt(t, i).element)

\* C24: for a text without recognizable tag the parser returns exactly one
\* text part, equal to the text, and no invocation; on any text it returns
\* (it never fails), and when it detects no call its answer is one text part.
C24_Degrades ==
  Called =>
    /\ ~HasTag(parserText) =>
         Parsed.textParts = <<parserText>> /\ Parsed.functionCalls = << >>
    /\ Parsed.functionCalls = << >> => Len(Parsed.textParts) = 1

\* A text with a word, an opening tag that is never closed and a blank came
\* back as it was.
C24_Witness ==
  /\ parserRun.pc = "parsed"
  /\ parserText = <<"x", InvokeF, " ">>
  /\ Parsed.textParts = <<parserText>>
  /\ Parsed.functionCalls = << >>

\* ----------------------------------------------------------------------- C26
\* C26: no two call candidates the parser accepted have overlapping
\* [start, end) ranges: a shorthand match that is inside an accepted
\* explicit-wrapper call, overlaps it partially or encloses it is discarded.
C26_NoOverlap ==
  Called =>
    \A m, n \in 1..Len(Parsed.toolCalls) :
      m # n => \/ Parsed.toolCalls[m].end <= Parsed.toolCalls[n].start
               \/ Parsed.toolCalls[n].end <= Parsed.toolCalls[m].start

\* ----------------------------------------------------------------------- C25
\* The places of the invoke tags of a text, in order.
InvokeTagsAt(t) ==
  LET RECURSIVE From(_)
      From(i) == IF i > Len(t) THEN << >>
                 ELSE IF t[i] \in {InvokeF, InvokeG, InvokeEnd} THEN <<i>> \o From(i + 1)
                 ELSE From(i + 1)
  IN From(1)

\* The text is words, blanks, parameter tags, shorthand tags and N >= 1
\* explicit-wrapper calls one after the other: its invoke tags are an opening
\* tag, a closing tag, an opening tag, a closing tag, and so on.
HasInvokeCallsOnly(t) ==
  LET at == InvokeTagsAt(t)
  IN /\ \A i \in 1..Len(t) :
          t[i] \in {"x", "y", " ", InvokeF, InvokeG, InvokeEnd, Parameter, ParameterEnd,
                    TagA, TagAEnd}
     /\ Len(at) >= 2 /\ Len(at) % 2 = 0
     /\ \A k \in 1..Len(at) : (t[at[k]] = InvokeEnd) <=> (k % 2 = 0)

\* The [start, end) ranges of those calls, in order.
InvokeSpans(t) ==
  LET at == InvokeTagsAt(t)
  IN [n \in 1..(Len(at) \div 2) |-> [start |-> at[2 * n - 1] - 1, end |-> at[2 * n]]]

\* Every shorthand element of the text (an opening tag, up to the first
\* closing tag after it) has a piece in common with one of the calls: by the
\* overlap rule none of them is a call of its own.
ShorthandOverlapsInvoke(t) ==
  \A i \in 1..Len(t) :
    \A j \in (i + 1)..Len(t) :
      (t[i] = TagA /\ t[j] = TagAEnd /\ \A k \in (i + 1)..(j - 1) : t[k] # TagAEnd) =>
        \E n \in 1..Len(InvokeSpans(t)) :
          i - 1 < InvokeSpans(t)[n].end /\ InvokeSpans(t)[n].start < j

\* The texts before, between and after the calls that are not blank, trimmed,
\* in order.
InterveningTexts(t) ==
  LET spans == InvokeSpans(t)
      Gap(n) == IF n = 0 THEN substring(t, 0, spans[1].start)
                ELSE IF n = Len(spans) THEN substring(t, spans[n].end, Len(t))
                ELSE substring(t, spans[n].end, spans[n + 1].start)
      RECURSIVE From(_)
      From(n) == IF n > Len(spans) THEN << >>
                 ELSE (IF trim(Gap(n)) = << >> THEN << >> ELSE <<trim(Gap(n))>>)
                      \o From(n + 1)
  IN From(0)

\* C25: for a text with N explicit-wrapper calls that do not overlap (and no
\* other call) the parser returns exactly N invocations, in the left-to-right
\* order of the calls, and each intervening text that is not blank as a text
\* part of its own.
C25_OneInvocationPerInvoke ==
  (Called /\ HasInvokeCallsOnly(parserText) /\ ShorthandOverlapsInvoke(parserText)) =>
    /\ Len(Parsed.functionCalls) = Len(InvokeSpans(parserText))
    /\ \A n \in 1..Len(InvokeSpans(parserText)) :
         /\ n <= Len(Parsed.functionCalls)
         /\ Parsed.functionCalls[n].name
              = TagAt(parserText, InvokeSpans(parserText)[n].start + 1).name
    /\ Parsed.textParts = InterveningTexts(parserText)

\* ----------------------------------------------------------------------- C27
\* C27: removing the fabricated result blocks from a text from which they
\* were removed changes nothing: after one pass no removable block is left.
C27_RemovalIdempotent ==
  Called =>
    /\ removeFunctionResults(Parsed.removed) = Parsed.removed
    /\ ~exec(ResultPattern, Parsed.removed, 0).found

\* ----------------------------------------------------------------------- C28
\* The self-contained result blocks of a text: an opening tag up to the first
\* closing tag after it, from left to right.
ResultBlocks(t) == matchAll(ResultPattern, t, 0)

\* Piece i of the text lies inside one of them (its tags included).
InsideBlock(t, i) ==
  \E n \in 1..Len(ResultBlocks(t)) :
    ResultBlocks(t)[n].index < i /\ i <= ResultBlocks(t)[n].lastIndex

\* The text outside the blocks.
OutsideBlocks(t) ==
  LET RECURSIVE From(_)
      From(i) == IF i > Len(t) THEN << >>
                 ELSE IF InsideBlock(t, i) THEN From(i + 1)
                 ELSE <<t[i]>> \o From(i + 1)
  IN From(1)

\* The names of the matches of a pattern, and of the invocations that carry
\* the name of an explicit-wrapper call, in order.
Names(calls) == [n \in 1..Len(calls) |-> calls[n].name]

InvokeNames(calls) == SelectSeq(Names(calls), LAMBDA name : name \in {"f", "g"})

\* The piece occurs in the text, and only inside result blocks.
OnlyInsideBlocks(t, piece) ==
  /\ \E i \in 1..Len(t) : t[i] = piece
  /\ \A i \in 1..Len(t) : t[i] = piece => InsideBlock(t, i)

\* The pieces an opening tag of that name begins with.
OpeningPieces(name) ==
  CASE name = "f" -> {InvokeF}
    [] name = "g" -> {InvokeG}
    [] name = "a" -> {TagA}
    [] name = "function_calls" -> {CallsTag}
    [] name = "function_result" -> {ResultTag, ResultHalf}

\* The text has such pieces, and only inside result blocks.
OpenedOnlyInsideBlocks(t, name) ==
  /\ \E i \in 1..Len(t) : t[i] \in OpeningPieces(name)
  /\ \A i \in 1..Len(t) : t[i] \in OpeningPieces(name) => InsideBlock(t, i)

\* The piece is part of what the parser returned: of a text part, or of the
\* value of an argument.
Forwarded(piece) ==
  \/ \E n \in 1..Len(Parsed.textParts) :
       \E i \in 1..Len(Parsed.textParts[n]) : Parsed.textParts[n][i] = piece
  \/ \E n \in 1..Len(Parsed.functionCalls) :
       \E member \in Parsed.functionCalls[n].args :
         \E i \in 1..Len(member[2]) : member[2][i] = piece

\* C28: result blocks are removed before the calls are detected and nothing
\* of them is forwarded.  The text the detection works on is the text outside
\* the self-contained blocks; a piece that occurs only inside blocks is in no
\* text part and in no argument, and a name whose opening tags occur only
\* inside blocks is the name of no invocation; and every explicit-wrapper call of the text
\* outside the blocks (the calls of a function_calls wrapper unwrapped), a
\* call next to a block included, is returned as an invocation of its own, in
\* order.
C28_ResultsRemovedFirst ==
  Called =>
    /\ Parsed.removed = OutsideBlocks(parserText)
    /\ \A piece \in Alphabet : OnlyInsideBlocks(parserText, piece) => ~Forwarded(piece)
    /\ \A name \in {"f", "g", "a", "function_calls", "function_result"} :
         OpenedOnlyInsideBlocks(parserText, name) =>
           \A n \in 1..Len(Parsed.functionCalls) : Parsed.functionCalls[n].name # name
    /\ InvokeNames(Parsed.functionCalls)
         = LET outside == OutsideBlocks(parserText)
           IN Names(matchAll(InvokePattern,
                             unwrapFunctionCalls(outside, matchAll(CallsPattern, outside, 0)),
                             0))

\* A call is followed by a result block that holds a word: the call is the
\* only invocation and there is no text part.
C28_Witness ==
  /\ Called
  /\ parserText = <<InvokeF, InvokeEnd, ResultTag, "x", ResultEnd>>
  /\ Parsed.functionCalls = <<[name |-> "f", args |-> {}]>>
  /\ Parsed.textParts = << >>

\* ----------------------------------------------------------------------- C31
\* The commands created in this step, and the commands dispatched in it.
Created == (Len(cmds) + 1)..Len(cmds')

DispatchedNow ==
  {dequeued'[i].cmd : i \in {j \in (Len(dequeued) + 1)..Len(dequeued') :
                               dequeued'[j].by = "dispatch"}}

\* The '/map' commands that wait in the queue.
WaitingMaps == {c \in CmdIds : cmds[c].kind = "map" /\ InQueue(c)}

\* A '/map' command created in this step is dispatched in it, or else it is at
\* the head of the queue, before everything that waited, and the command in
\* flight stays in flight.
PlacedAhead ==
  \A c \in Created :
    cmds'[c].kind = "map" =>
      \/ currentCommand' = c /\ commandQueue' = commandQueue
      \/ /\ commandQueue' = <<c>> \o commandQueue
         /\ currentCommand # 0 /\ currentCommand' = currentCommand

\* The instruction of a command is written in the step that dispatches it,
\* when no other command is in flight: every other command dispatched so far
\* is settled.
NotPreempting ==
  \A i \in (Len(stdinLog) + 1)..Len(stdinLog') :
    stdinLog'[i].kind = "instruction" =>
      /\ stdinLog'[i].cmd \in DispatchedNow
      /\ \A d \in CmdIds : Dispatched(d) /\ d # stdinLog'[i].cmd => outcome'[d] # << >>

\* The cache or its timestamp is written in this step.  (A Tick only moves
\* the timestamp into the past.)
CacheWritten == repoMapCache' # repoMapCache \/ lastRepoMapTime' > lastRepoMapTime

\* A '/map' command is fulfilled in this step, with this result.
MapFulfilledWith(result) ==
  \E c \in CmdIds :
    /\ cmds[c].kind = "map"
    /\ Len(outcome'[c]) > Len(outcome[c])
    /\ outcome'[c][Len(outcome'[c])].how = "resolve"
    /\ outcome'[c][Len(outcome'[c])].result = result

RefreshedOnFulfilment ==
  CacheWritten =>
    /\ repoMapCache' # << >>
    /\ MapFulfilledWith(repoMapCache'[1])
    /\ lastRepoMapTime' = Now

LinesOf(c) == {i \in 1..Len(stdinLog) : stdinLog[i].cmd = c}

\* What dispatching command c writes: a directive for each file, in the order
\* of the list, then the instruction.
DispatchLines(c) ==
  [n \in 1..Len(cmds[c].files) |-> [kind |-> "add", text |-> cmds[c].files[n]]]
  \o <<[kind |-> "instruction", text |-> cmds[c].instruction]>>

\* The lines of command c are exactly those, one after the other in the stdin
\* history of one subprocess.
WrittenInOrder(c) ==
  \E first \in 1..Len(stdinLog) :
    /\ LinesOf(c) = first..(first + Len(DispatchLines(c)) - 1)
    /\ \A n \in 1..Len(DispatchLines(c)) :
         /\ stdinLog[first + n - 1].kind = DispatchLines(c)[n].kind
         /\ stdinLog[first + n - 1].text = DispatchLines(c)[n].text
         /\ stdinLog[first + n - 1].proc = stdinLog[first].proc

\* C32: for each dispatched command one file directive per file is written, in
\* the order of the files list, all before the instruction, and nothing of
\* another command between them.
C32_WriteOrder == \A c \in CmdIds : Dispatched(c) => WrittenInOrder(c)

\* ----------------------------------------------------------------------- C33
\* The commands dispatched so far, in order.  Each dispatch arms one timer and
\* the timers fire in the order they were armed: the timer at the head of
\* timers is the one armed by this dispatch.
DispatchedCmds ==
  LET dispatches == SelectSeq(dequeued, LAMBDA d : d.by = "dispatch")
  IN [n \in 1..Len(dispatches) |-> dispatches[n].cmd]

ArmedHead == DispatchedCmds[Len(DispatchedCmds) - Len(timers) + 1]

\* Command c is settled by the timeout in this step.
TimedOutNow(c) ==
  /\ Len(outcome'[c]) > Len(outcome[c])
  /\ outcome'[c][Len(outcome'[c])].by = "timeout"

\* C33: a timeout only ever settles the command whose dispatch armed it; when
\* that command is settled already the firing has no effect.
C33_TimerSettlesOwnCommand ==
  [][\A c \in CmdIds : TimedOutNow(c) => c = ArmedHead]_vars

\* ----------------------------------------------------------------------- C34
\* Subprocess p is starting: the start() that spawned it still waits for the
\* readiness signal.
StartingIn(sts, p) ==
  \E i \in 1..Len(sts) : sts[i].proc = p /\ sts[i].state = "waitReady"

\* C34: no line of a command is written to a subprocess that is still
\* starting when the step is over, and a step in which a starting subprocess
\* prints settles no command.
C34_NothingWhileStarting ==
  [][/\ \A i \in (Len(stdinLog) + 1)..Len(stdinLog') :
          stdinLog'[i].cmd # 0 => ~StartingIn(starts', stdinLog'[i].proc)
     /\ \A p \in 1..Len(procs) :
          StartingIn(starts, p) /\ procs'[p].out > procs[p].out => outcome' = outcome]_vars

\* ----------------------------------------------------------------------- C35
\* The close event of subprocess p is handled in this step.
ClosesNow(p) ==
  procs[p].state \in {"running", "killed"} /\ procs'[p].state \in {"exited", "closed"}

\* C35: the close event of a subprocess that is not the one the service holds
\* leaves the handle of the newer subprocess in place and fails no command:
\* the command in flight, the queue and the outcomes stay as they are.
C35_LateCloseHarmless ==
  [][\A p \in 1..Len(procs) :
       ClosesNow(p) /\ aiderProcess # 0 /\ aiderProcess # p =>
         /\ aiderProcess' = aiderProcess
         /\ currentCommand' = currentCommand
         /\ commandQueue' = commandQueue
         /\ outcome' = outcome]_vars

\* ----------------------------------------------------------------------- C36
\* The start() invocations made in this step.
StartedNow == (Len(starts) + 1)..Len(starts')

\* C36: the service holds one handle, and a subprocess is spawned only in a
\* step that begins with no handle held; the step spawns one subprocess and
\* holds it when it is over.  A start() made while a handle is held is a
\* no-op: it is done at once, spawns nothing and writes nothing.  So of the
\* calls made from the Stopped state on, the first spawns and the others do
\* not, as long as the handle stays.
C36_OneSubprocess ==
  [][/\ Len(procs') > Len(procs) =>
          /\ aiderProcess = 0
          /\ Len(procs') = Len(procs) + 1
          /\ aiderProcess' = Len(procs')
     /\ \A i \in StartedNow :
          IF aiderProcess = 0
          THEN starts'[i].proc = Len(procs') /\ Len(procs') = Len(procs) + 1
          ELSE /\ starts'[i] = [state |-> "done", proc |-> 0, exec |-> 0]
               /\ procs' = procs
               /\ aiderProcess' = aiderProcess
               /\ stdinLog' = stdinLog
               /\ commandQueue' = commandQueue /\ currentCommand' = currentCommand]_vars

\* Two execute() calls and a start() were made one after the other from the
\* Stopped state, while the first subprocess was starting: one subprocess was
\* spawned, by the first call.
C36_Witness ==
  /\ Len(procs) = 1 /\ aiderProcess = 1
  /\ Len(execs) = 2
  /\ Len(starts) = 2
  /\ starts[1].proc = 1 /\ starts[1].state = "waitReady"
  /\ starts[2] = [state |-> "done", proc |-> 0, exec |-> 0]

\* ----------------------------------------------------------------------- C37
\* A '/map' command is rejected in this step.
MapRejectedNow ==
  \E c \in CmdIds :
    /\ cmds[c].kind = "map"
    /\ Len(outcome'[c]) > Len(outcome[c])
    /\ outcome'[c][Len(outcome'[c])].how = "reject"

\* updateRepoMap() runs in this step and issues no command because no
\* subprocess is held: for a getRepoMap() that missed the cache, or for a
\* start() past its wait for readiness.
MapNotIssuedNow ==
  \/ \E g \in (Len(maps) + 1)..Len(maps') : ~maps'[g].hit /\ maps'[g].cmd = 0
  \/ /\ Created = {}
     /\ \E i \in 1..Len(starts) :
          starts[i].state = "waitReady" /\ starts'[i].state = "waitMap"

\* C37: the step in which a regeneration of the repo map fails (its '/map'
\* command is rejected, or none is issued for want of a subprocess) leaves the
\* cached map and its generation time as they were.
C37_FailureKeepsCache ==
  [][MapRejectedNow \/ MapNotIssuedNow
       => repoMapCache' = repoMapCache /\ lastRepoMapTime' = lastRepoMapTime]_vars

\* The cache holds the map an earlier '/map' command produced, a later '/map'
\* command was rejected, and a getRepoMap() issued no command at all.
C37_Witness ==
  /\ repoMapCache # << >>
  /\ lastRepoMapTime > 0
  /\ \E c, d \in CmdIds :
       /\ d < c
       /\ cmds[d].kind = "map" /\ cmds[c].kind = "map"
       /\ outcome[d] # << >> /\ outcome[d][1].how = "resolve"
       /\ repoMapCache = <<outcome[d][1].result>>
       /\ outcome[c] # << >> /\ outcome[c][1].how = "reject"
  /\ \E g \in 1..Len(maps) : ~maps[g].hit /\ maps[g].cmd = 0

\* ----------------------------------------------------------------------- C38
\* The bytes of a response body made of these lines.
RECURSIVE Body(_)
Body(lines) == IF lines = << >> THEN << >> ELSE Head(lines) \o <<NL>> \o Body(Tail(lines))

\* The generator resumed after each of its yields until it reads again.
RECURSIVE Drain(_)
Drain(s) == IF s.gen.pc = "yield" THEN Drain(next(s)) ELSE s

\* The generator after the whole body arrived as one chunk and every fragment
\* was handed over.
AfterOneChunk(lines) ==
  Drain(read([Pv EXCEPT !.gen = [NoCall EXCEPT !.pc = "read",
                                              !.entry = "generateContentStream"],
                        !.inflight = Body(lines),
                        !.yielded = << >>],
             Len(Body(lines))))

\* What the generator yields when the whole body arrives as one chunk.
InOneChunk(lines) == AfterOneChunk(lines).yielded

IsPrefix(a, b) == Len(a) <= Len(b) /\ a = SubSeq(b, 1, Len(a))

\* The stream is being read, or was read to its end.
Reading == gen.entry = "generateContentStream" /\ gen.pc \in {"read", "yield", "done"}

\* C38: however the body was cut into chunks, the fragments yielded so far
\* (each with the line it was made for) are the first of those the generator
\* yields when the body arrives as one chunk, and they are all of them once
\* every byte sent was read and every fragment handed over.
C38_ChunkingIndependent ==
  Reading =>
    /\ IsPrefix(yielded, InOneChunk(sent))
    /\ gen.pc \in {"read", "done"} /\ inflight = << >> => yielded = InOneChunk(sent)

\* A frame is cut by the chunking: a fragment was yielded for the first frame,
\* the prefix and the payload of a second, a message_stop, arrived in a chunk
\* and are kept in the buffer, and its newline is still to be read.
C38_Witness ==
  /\ Reading
  /\ gen.pc = "read"
  /\ Len(yielded) = 1
  /\ Len(sent) = 2
  /\ IsMessageStop(2)
  /\ gen.buffer = sent[2]
  /\ inflight = <<NL>>

\* ----------------------------------------------------------------------- C39
\* The generator as it was before line n, had the lines before n arrived as
\* one chunk.
Before(n) == AfterOneChunk(SubSeq(sent, 1, n - 1))

\* Line n is a frame whose payload is no JSON text.
IsGarbage(n) == sent[n] = <<DataPrefix, Garbage>>

\* Line n is a frame whose event is of none of the kinds the generator knows.
IsUnrecognized(n) == EventAt(n).type = "ping"

\* Line n is an argument delta or a block stop met with no call pending.
IsOrphan(n) ==
  /\ IsArgumentDelta(n) \/ IsBlockStop(n)
  /\ Before(n).gen.currentToolCall = << >>

Skipped(n) == IsGarbage(n) \/ IsUnrecognized(n) \/ IsOrphan(n)

\* C39: no fragment is made for a skipped line; and when the last line sent is
\* a skipped one and the generator went through it, the generator waits for
\* the next chunk (it ended only if the body did), and the pending call, with
\* its name and argument text, and the fragments yielded are what they were
\* before that line.
C39_SkippedFrames ==
  Reading =>
    /\ \A n \in Seen : Skipped(n) => FragmentsAt(n) = {}
    /\ gen.lineNo = Len(sent) /\ Len(sent) > 0 /\ Skipped(Len(sent)) =>
         /\ gen.pc = "read" \/ (gen.pc = "done" /\ closed)
         /\ gen.currentToolCall = Before(Len(sent)).gen.currentToolCall
         /\ yielded = Before(Len(sent)).yielded

\* A call named f has accumulated argument text; an unparseable frame and a
\* ping followed, and the generator went through both.
C39_Witness ==
  /\ Reading
  /\ gen.pc = "read"
  /\ Len(sent) = 4 /\ gen.lineNo = 4
  /\ IsToolStart(1) /\ IsArgumentDelta(2) /\ IsGarbage(3) /\ IsUnrecognized(4)
  /\ gen.currentToolCall # << >>
  /\ gen.currentToolCall[1].input # << >>

\* A block stop was met with no call pending, after a text fragment.
C39_OrphanWitness ==
  /\ Reading
  /\ gen.pc = "read"
  /\ Len(sent) = 2 /\ gen.lineNo = 2
  /\ IsTextDelta(1) /\ IsBlockStop(2)
  /\ Len(yielded) = 1

\* ----------------------------------------------------------------------- C40
\* The tool-block-start on line a2 arrives while the call started on line a is
\* pending, and the next tool-block-stop after a2 is on line b.
Replaced(a, a2, b) ==
  /\ a < a2 /\ a2 < b
  /\ IsToolStart(a) /\ IsToolStart(a2) /\ IsBlockStop(b)
  /\ \A j \in (a + 1)..(a2 - 1) : ~IsBlockStop(j)
  /\ \A j \in (a2 + 1)..(b - 1) : ~IsToolStart(j) /\ ~IsBlockStop(j)

\* C40: when a tool-block-start arrives while a call is pending, no invocation
\* is emitted before the next tool-block-stop, and exactly one fragment is
\* made for that stop: the invocation with the name of the latest start and
\* with the arguments decoded from the deltas that came after it.  And there
\* are never more invocation fragments than tool-block-stops seen.
C40_StartReplacesPending ==
  /\ \A a, a2, b \in Seen :
       Replaced(a, a2, b)
         => /\ \A j \in a..(b - 1) : FragmentsAt(j) \cap Invocations = {}
            /\ \E i \in 1..Len(yielded) :
                 /\ FragmentsAt(b) = {i}
                 /\ yielded[i].fragment.parts =
                      <<CallPart(EventAt(a2).name[1], toolArguments(ArgumentText(a2, b)))>>
  /\ Cardinality(Invocations) <= Cardinality({n \in Seen : IsBlockStop(n)})

\* start("f"), delta('{"a":1}'), start("g"), stop has produced the one
\* invocation {name: "g", arguments: {}}.
C40_Witness ==
  /\ Len(sent) = 4 /\ gen.lineNo = 4
  /\ EventAt(1) = ToolBlockStart(<<"f">>)
  /\ EventAt(2) = ArgumentDelta(<<"{", "a1", "}">>)
  /\ EventAt(3) = ToolBlockStart(<<"g">>)
  /\ EventAt(4) = BlockStop
  /\ Len(yielded) = 1
  /\ yielded[1].fragment.parts = <<CallPart(<<"g">>, {})>>

\* start("f"), start("g"), delta('{"a":1}'), stop has produced the one
\* invocation {name: "g", arguments: {a: 1}}.
C40_DeltasAfterWitness ==
  /\ Len(sent) = 4 /\ gen.lineNo = 4
  /\ EventAt(1) = ToolBlockStart(<<"f">>)
  /\ EventAt(2) = ToolBlockStart(<<"g">>)
  /\ EventAt(3) = ArgumentDelta(<<"{", "a1", "}">>)
  /\ EventAt(4) = BlockStop
  /\ Len(yielded) = 1
  /\ yielded[1].fragment.parts = <<CallPart(<<"g">>, {<<"a", 1>>})>>

====
